---- MODULE Spec2Model ----
(***************************************************************************)
(* State-machine model of the YubiHSM playground core (src/src/hsm):       *)
(* the SessionManager, the HsmClient capability with its Mutex, the        *)
(* functions of hsm::operations, and the device they talk to.              *)
(***************************************************************************)
EXTENDS Integers, Sequences, FiniteSets, TLC

\* ------------------------------------------------------------------ bounds

\* Number of concurrent callers that share the session.
NumCallers == 2

Callers == 1..NumCallers

\* ------------------------------------------------------- program constants

DEFAULT_AUTH_KEY_ID == 1
DEFAULT_SIGNING_KEY_ID == 62299

AuthenticationKey == "AuthenticationKey"
AsymmetricKey == "AsymmetricKey"
Opaque == "Opaque"

\* ------------------------------------------------------------------ values

None == 0

Ok(v) == [ok |-> TRUE, val |-> v, kind |-> "Ok", detail |-> <<>>]

Err(k, d) == [ok |-> FALSE, val |-> <<>>, kind |-> k, detail |-> d]

NoRet == [ok |-> FALSE, val |-> <<>>, kind |-> "pending", detail |-> <<>>]

\* An operation of hsm::operations with its arguments (unused ones blank).
Op(n, i, t, d, s) == [name |-> n, id |-> i, ty |-> t, data |-> d, sig |-> s]

NoOp == Op("none", 0, "none", <<>>, <<>>)

\* ------------------------------------------------------------------- bytes

Rep(n, b) == [i \in 1..n |-> b]

Take(s, n) == SubSeq(s, 1, n)

Drop(s, n) == SubSeq(s, n + 1, Len(s))

\* Number of leading zero bytes of s.
RECURSIVE LeadingZeros(_)
LeadingZeros(s) ==
    IF s = <<>> \/ Head(s) # 0 THEN 0 ELSE 1 + LeadingZeros(Tail(s))

\* Big-endian comparison of two byte strings of equal length.
RECURSIVE LexLess(_, _)
LexLess(a, b) ==
    IF a = <<>> THEN FALSE
    ELSE IF Head(a) # Head(b) THEN Head(a) < Head(b)
    ELSE LexLess(Tail(a), Tail(b))

\* s with bit j (0 = least significant) of its i-th byte flipped.
FlipBit(s, i, j) ==
    LET w == 2 ^ j
        b == s[i]
    IN  [s EXCEPT ![i] = IF (b \div w) % 2 = 1 THEN b - w ELSE b + w]

\* ------------------------------------------------- sha2::Sha256 (external)

RECURSIVE Absorb(_, _)
Absorb(data, h) ==
    IF data = <<>> THEN h ELSE Absorb(Tail(data), (h * 33 + Head(data)) % 65521)

\* A 32-byte digest of data: a stand-in mixing function, not the identity,
\* without collisions on the messages of this model.
Sha256(data) ==
    LET h == Absorb(data, 5381)
    IN  [i \in 1..32 |-> (h + i * ((h % 251) + 1)) % 256]

\* --------------------------------------------- P-256 / ECDSA (external)

\* Width in bytes of a field element and of a scalar of P-256.
ScalarLen == 32

\* The group order n of P-256, big-endian.
OrderN ==
    << 255, 255, 255, 255, 0, 0, 0, 0, 255, 255, 255, 255, 255, 255, 255, 255,
       188, 230, 250, 173, 167, 23, 158, 132, 243, 185, 202, 194, 252, 99, 37, 81 >>

\* Private keys that exist in the model's universe, and their public points.
PrivKeys == {1, 2}

Pub(d) == [x |-> Rep(ScalarLen, 16 * d + 1), y |-> Rep(ScalarLen, 16 * d + 2)]

CurvePoints == {Pub(d) : d \in PrivKeys}

\* A signing nonce decides r; here it is named by the shape it gives the
\* signature: rz, sz leading zero bytes of r and s, hi the top bit of their
\* first non-zero byte.
Nonce(rz, sz, hi) == [rz |-> rz, sz |-> sz, hi |-> hi]

RScalar(k) ==
    Rep(k.rz, 0) \o << IF k.hi THEN 156 ELSE 28 >> \o Rep(ScalarLen - 1 - k.rz, 90)

SScalar(d, h, k) ==
    Rep(k.sz, 0)
      \o << (h[1] % 127) + 1 + (IF k.hi THEN 128 ELSE 0) >>
      \o [i \in 1..(ScalarLen - 1 - k.sz) |-> (h[i + 1] + 7 * d + k.rz) % 256]

\* Every nonce of the universe (the device draws from a subset of it).
AllNonces ==
    { Nonce(0, 0, FALSE), Nonce(0, 0, TRUE), Nonce(0, 1, FALSE),
      Nonce(3, 3, FALSE), Nonce(4, 3, FALSE) }

\* A scalar is acceptable when it is non-zero and below the group order.
InRange(sc) == sc # Rep(ScalarLen, 0) /\ LexLess(sc, OrderN)

\* (r, s) is a valid ECDSA signature of digest h under the public point q.
ValidSignature(q, h, r, s) ==
    \E d \in PrivKeys, k \in AllNonces :
        /\ Pub(d) = q
        /\ r = RScalar(k)
        /\ s = SScalar(d, h, k)

\* ASN.1 DER INTEGER of a scalar: minimal, with a 0x00 pad when the top bit
\* of the first byte is set.
DerInt(sc) ==
    LET z == LeadingZeros(sc)
        body == IF z = Len(sc) THEN <<0>> ELSE Drop(sc, z)
        padded == IF body[1] >= 128 THEN <<0>> \o body ELSE body
    IN  <<2, Len(padded)>> \o padded

\* ASN.1 DER SEQUENCE { INTEGER r, INTEGER s }.
DerEncode(r, s) ==
    LET body == DerInt(r) \o DerInt(s)
    IN  <<48, Len(body)>> \o body

\* The raw encoding r || s.
RawEncode(r, s) == r \o s

BadParse == [ok |-> FALSE, r |-> <<>>, s |-> <<>>, rest |-> <<>>]

\* One DER INTEGER at the head of b, as a 32-byte scalar, and what follows it.
DerIntParse(b) ==
    IF Len(b) < 3 \/ b[1] # 2 \/ b[2] = 0 \/ b[2] >= 128 \/ Len(b) < 2 + b[2]
    THEN BadParse
    ELSE LET n == b[2]
             body == SubSeq(b, 3, 2 + n)
             nonMinimal == n > 1 /\ body[1] = 0 /\ body[2] < 128
             negative == body[1] >= 128
             mag == IF n > 1 /\ body[1] = 0 THEN Tail(body) ELSE body
         IN  IF nonMinimal \/ negative \/ Len(mag) > ScalarLen
             THEN BadParse
             ELSE [ok |-> TRUE,
                   r |-> Rep(ScalarLen - Len(mag), 0) \o mag,
                   s |-> <<>>,
                   rest |-> Drop(b, 2 + n)]

\* p256::ecdsa::Signature::from_der
FromDer(b) ==
    IF Len(b) < 2 \/ b[1] # 48 \/ b[2] >= 128 \/ b[2] # Len(b) - 2
    THEN BadParse
    ELSE LET pr == DerIntParse(Drop(b, 2))
         IN  IF ~pr.ok THEN BadParse
             ELSE LET ps == DerIntParse(pr.rest)
                  IN  IF ~ps.ok \/ ps.rest # <<>> \/ ~InRange(pr.r) \/ ~InRange(ps.r)
                      THEN BadParse
                      ELSE [ok |-> TRUE, r |-> pr.r, s |-> ps.r, rest |-> <<>>]

\* p256::ecdsa::Signature::from_slice
FromSlice(b) ==
    IF Len(b) # 2 * ScalarLen THEN BadParse
    ELSE LET r == Take(b, ScalarLen)
             s == Drop(b, ScalarLen)
         IN  IF ~InRange(r) \/ ~InRange(s) THEN BadParse
             ELSE [ok |-> TRUE, r |-> r, s |-> s, rest |-> <<>>]

\* p256::ecdsa::VerifyingKey::from_sec1_bytes, for an uncompressed point.
FromSec1Bytes(b) ==
    IF Len(b) = 2 * ScalarLen + 1 /\ b[1] = 4
       /\ [x |-> SubSeq(b, 2, ScalarLen + 1), y |-> Drop(b, ScalarLen + 1)] \in CurvePoints
    THEN [ok |-> TRUE, q |-> [x |-> SubSeq(b, 2, ScalarLen + 1), y |-> Drop(b, ScalarLen + 1)]]
    ELSE [ok |-> FALSE, q |-> [x |-> <<>>, y |-> <<>>]]

\* PrehashVerifier::verify_prehash: "Ok" or "Err" (any failure of the library).
VerifyPrehash(q, h, sg) ==
    IF ValidSignature(q, h, sg.r, sg.s) THEN "Ok" ELSE "Err"

\* ------------------------------------------------------------------ device

\* The objects the device holds after provisioning, in its enumeration order.
Descriptor(i, t, a, l, q) ==
    [object_id |-> i, object_type |-> t, algorithm |-> a, label |-> l, sequence |-> q]

ProvisionedObjects ==
    << Descriptor(DEFAULT_SIGNING_KEY_ID, AsymmetricKey, "EcP256", "signing", 0),
       Descriptor(DEFAULT_AUTH_KEY_ID, AuthenticationKey, "YubicoAesAuthentication", "auth", 0) >>

\* The private key behind the provisioned asymmetric key object.
PrivOf(id) == 1

\* The password of the provisioned authentication key.
DevicePassword == "password"

PkForms == {"raw64", "sec1"}

\* Every export the model's devices produce: the two forms of a P-256 key,
\* 65 bytes under another tag, keys of other algorithms (32 and 96 bytes),
\* and bytes of an accepted shape that are no point of the curve.
KeyForms == PkForms \cup {"tag05", "ed25519", "p384", "offcurve64", "offcurve65"}

\* The bytes the device returns for a public point, in its export format.
PublicKeyBytes(q, form) ==
    CASE form = "sec1" -> <<4>> \o q.x \o q.y
      [] form = "tag05" -> <<5>> \o q.x \o q.y
      [] form = "ed25519" -> q.x
      [] form = "p384" -> q.x \o q.y \o q.x
      [] form = "offcurve64" -> q.x \o q.x
      [] form = "offcurve65" -> <<4>> \o q.x \o q.x
      [] OTHER -> q.x \o q.y

RECURSIVE Find(_, _, _)
Find(objs, id, ty) ==
    IF objs = <<>> THEN 0
    ELSE IF Head(objs).object_id = id /\ Head(objs).object_type = ty THEN 1
    ELSE LET n == Find(Tail(objs), id, ty) IN IF n = 0 THEN 0 ELSE n + 1

Remove(objs, n) == Take(objs, n - 1) \o Drop(objs, n)

Entry(d) == [object_id |-> d.object_id, object_type |-> d.object_type]

DevOk(v, objs) == [ok |-> TRUE, val |-> v, err |-> "none", objects |-> objs]

DevErr(e, objs) == [ok |-> FALSE, val |-> <<>>, err |-> e, objects |-> objs]

\* A remote call on the device: what it answers and the objects it holds
\* afterwards. k is the nonce its random generator draws for a signature;
\* fault says that the transport fails before the device acts.
DeviceExec(call, objs, form, k, fault) ==
    IF fault THEN DevErr("ProtocolError", objs)
    ELSE CASE call.fn = "sign_ecdsa_prehash_raw" ->
                IF Find(objs, call.id, AsymmetricKey) = 0
                THEN DevErr("ObjectNotFound", objs)
                ELSE LET d == PrivOf(call.id)
                     IN  DevOk(DerEncode(RScalar(k), SScalar(d, call.arg, k)), objs)
           [] call.fn = "get_public_key" ->
                IF Find(objs, call.id, AsymmetricKey) = 0
                THEN DevErr("ObjectNotFound", objs)
                ELSE DevOk(PublicKeyBytes(Pub(PrivOf(call.id)), form), objs)
           [] call.fn = "list_objects" ->
                DevOk([i \in 1..Len(objs) |-> Entry(objs[i])], objs)
           [] call.fn = "get_object_info" ->
                LET n == Find(objs, call.id, call.ty)
                IN  IF n = 0 THEN DevErr("ObjectNotFound", objs)
                    ELSE DevOk(objs[n], objs)
           [] call.fn = "delete_object" ->
                LET n == Find(objs, call.id, call.ty)
                IN  IF n = 0 THEN DevErr("ObjectNotFound", objs)
                    ELSE DevOk(<<>>, Remove(objs, n))

\* Client::open: the device accepts the credential of an authentication key
\* it holds.
ClientOpen(config, objs, fault) ==
    /\ ~fault
    /\ Find(objs, config.auth_key_id, AuthenticationKey) # 0
    /\ config.auth_password = DevicePassword

\* ------------------------------------------------- hsm::operations (pure)

HexDigits ==
    << "0", "1", "2", "3", "4", "5", "6", "7", "8", "9", "a", "b", "c", "d", "e", "f" >>

\* hex::encode: two lowercase digits per byte.
HexEncode(b) ==
    [i \in 1..(2 * Len(b)) |->
        HexDigits[(IF i % 2 = 1 THEN b[(i + 1) \div 2] \div 16 ELSE b[i \div 2] % 16) + 1]]

\* A classification that takes every 65 bytes for a SEC1 point.
VerifyingKeyOf_anytag(pk_bytes) ==
    IF Len(pk_bytes) = 65
    THEN LET p == FromSec1Bytes(pk_bytes)
         IN  IF p.ok THEN Ok(p.q) ELSE Err("InvalidKey", <<"Invalid public key (SEC1)">>)
    ELSE IF Len(pk_bytes) = 64
    THEN LET p == FromSec1Bytes(<<4>> \o pk_bytes)
         IN  IF p.ok THEN Ok(p.q) ELSE Err("InvalidKey", <<"Invalid public key (raw)">>)
    ELSE Err("InvalidKey", <<"Unexpected public key length", Len(pk_bytes)>>)

\* A classification that hands the 64 raw bytes to the parser without a tag.
VerifyingKeyOf_noprefix(pk_bytes) ==
    IF Len(pk_bytes) = 65 /\ pk_bytes[1] = 4
    THEN LET p == FromSec1Bytes(pk_bytes)
         IN  IF p.ok THEN Ok(p.q) ELSE Err("InvalidKey", <<"Invalid public key (SEC1)">>)
    ELSE IF Len(pk_bytes) = 64
    THEN LET p == FromSec1Bytes(pk_bytes)
         IN  IF p.ok THEN Ok(p.q) ELSE Err("InvalidKey", <<"Invalid public key (raw)">>)
    ELSE Err("InvalidKey", <<"Unexpected public key length", Len(pk_bytes)>>)

\* verify, lines 58-76: the verifying key from the device's public key bytes.
VerifyingKeyOf(pk_bytes) ==
    IF Len(pk_bytes) = 65 /\ pk_bytes[1] = 4
    THEN LET p == FromSec1Bytes(pk_bytes)
         IN  IF p.ok THEN Ok(p.q) ELSE Err("InvalidKey", <<"Invalid public key (SEC1)">>)
    ELSE IF Len(pk_bytes) = 64
    THEN LET p == FromSec1Bytes(<<4>> \o pk_bytes)
         IN  IF p.ok THEN Ok(p.q) ELSE Err("InvalidKey", <<"Invalid public key (raw)">>)
    ELSE Err("InvalidKey", <<"Unexpected public key length", Len(pk_bytes)>>)

\* A classification by the first byte alone: 0x30 is DER whatever the length.
ParseSignature_tagonly(signature) ==
    IF Len(signature) > 0 /\ signature[1] = 48
    THEN LET p == FromDer(signature)
         IN  IF p.ok THEN Ok([r |-> p.r, s |-> p.s])
             ELSE Err("InvalidInput", <<"Invalid DER signature format">>)
    ELSE IF Len(signature) = 64
    THEN LET p == FromSlice(signature)
         IN  IF p.ok THEN Ok([r |-> p.r, s |-> p.s])
             ELSE Err("InvalidInput", <<"Invalid raw signature format">>)
    ELSE Err("InvalidInput", <<"Invalid signature length", Len(signature)>>)

\* verify, lines 82-97: the signature from the caller's signature bytes.
ParseSignature(signature) ==
    IF Len(signature) > 64 /\ signature[1] = 48
    THEN LET p == FromDer(signature)
         IN  IF p.ok THEN Ok([r |-> p.r, s |-> p.s])
             ELSE Err("InvalidInput", <<"Invalid DER signature format">>)
    ELSE IF Len(signature) = 64
    THEN LET p == FromSlice(signature)
         IN  IF p.ok THEN Ok([r |-> p.r, s |-> p.s])
             ELSE Err("InvalidInput", <<"Invalid raw signature format">>)
    ELSE Err("InvalidInput", <<"Invalid signature length", Len(signature)>>)

\* A verdict that hands the library's error on as an error.
VerdictOf_propagate(outcome) ==
    IF outcome = "Ok" THEN Ok(TRUE)
    ELSE Err("VerificationFailed", <<"signature error">>)

\* verify, lines 99-104: the library's verdict as a boolean.
VerdictOf(outcome) == IF outcome = "Ok" THEN Ok(TRUE) ELSE Ok(FALSE)

\* A verify that parses the signature before it parses the key.
VerifyLocal_sigfirst(pk_bytes, hash, signature) ==
    LET sg == ParseSignature(signature)
    IN  IF ~sg.ok THEN sg
        ELSE LET vk == VerifyingKeyOf(pk_bytes)
             IN  IF ~vk.ok THEN vk
                 ELSE VerdictOf(VerifyPrehash(vk.val, hash, sg.val))

\* verify, lines 56-104: everything after the public key was fetched.
VerifyLocal(pk_bytes, hash, signature) ==
    LET vk == VerifyingKeyOf(pk_bytes)
    IN  IF ~vk.ok THEN vk
        ELSE LET sg == ParseSignature(signature)
             IN  IF ~sg.ok THEN sg
                 ELSE VerdictOf(VerifyPrehash(vk.val, hash, sg.val))

RemoteCall(f, i, t, a) == [fn |-> f, id |-> i, ty |-> t, arg |-> a]

NoCall == RemoteCall("none", 0, "none", <<>>)

NoInfo == Descriptor(0, "none", "none", "none", 0)

\* An operation's local variables: the remote call it is about to issue or
\* has in flight, and list_object_summaries' entries, info and summaries.
Locals(call, entries, info, summaries) ==
    [call |-> call, entries |-> entries, info |-> info, summaries |-> summaries]

NoLocals == Locals(NoCall, <<>>, NoInfo, <<>>)

\* Where an operation stands after a step: returned (pc "done" with ret) or
\* about to lock the client for its next remote call (pc "lock").
Returned(r) == [pc |-> "done", ret |-> r, loc |-> NoLocals]

Calling(call, entries, info, summaries) ==
    [pc |-> "lock", ret |-> NoRet, loc |-> Locals(call, entries, info, summaries)]

\* sign without its check of the data.
SignEnter_nocheck(o) ==
    Calling(RemoteCall("sign_ecdsa_prehash_raw", o.id, "none", Sha256(o.data)),
            <<>>, NoInfo, <<>>)

\* sign, lines 13-19.
SignEnter(o) ==
    IF o.data = <<>> THEN Returned(Err("InvalidInput", <<"Data cannot be empty">>))
    ELSE Calling(RemoteCall("sign_ecdsa_prehash_raw", o.id, "none", Sha256(o.data)),
                 <<>>, NoInfo, <<>>)

\* verify, lines 35-40.
VerifyEnter(o) ==
    IF o.data = <<>> THEN Returned(Err("InvalidInput", <<"Data cannot be empty">>))
    ELSE Calling(RemoteCall("get_public_key", o.id, "none", <<>>), <<>>, NoInfo, <<>>)

\* delete_object without its guard: every type is forwarded.
DeleteEnter_unguarded(o) ==
    Calling(RemoteCall("delete_object", o.id, o.ty, <<>>), <<>>, NoInfo, <<>>)

\* delete_object with its guard on the wrong type.
DeleteEnter_wrongtype(o) ==
    IF o.ty = AsymmetricKey
    THEN Returned(Err("InvalidInput", <<"Deleting authentication keys is not allowed">>))
    ELSE Calling(RemoteCall("delete_object", o.id, o.ty, <<>>), <<>>, NoInfo, <<>>)

\* delete_object, lines 195-199.
DeleteEnter(o) ==
    IF o.ty = AuthenticationKey
    THEN Returned(Err("InvalidInput", <<"Deleting authentication keys is not allowed">>))
    ELSE Calling(RemoteCall("delete_object", o.id, o.ty, <<>>), <<>>, NoInfo, <<>>)

\* An operation from its call to its first lock() or its early return.
Enter(o) ==
    CASE o.name = "sign" -> SignEnter(o)
      [] o.name = "verify" -> VerifyEnter(o)
      [] o.name = "delete_object" -> DeleteEnter(o)
      [] o.name = "get_object_info" ->
            Calling(RemoteCall("get_object_info", o.id, o.ty, <<>>), <<>>, NoInfo, <<>>)
      [] o.name = "get_public_key" ->
            Calling(RemoteCall("get_public_key", o.id, "none", <<>>), <<>>, NoInfo, <<>>)
      [] o.name = "list_object_summaries" ->
            Calling(RemoteCall("list_objects", 0, "none", <<>>), <<>>, NoInfo, <<>>)

\* The function of hsm::operations whose lock() guards the call: the
\* per-object lookups of list_object_summaries lock in their own bodies.
Locker(o, call) ==
    IF o.name = "list_object_summaries" /\ call.fn # "list_objects" THEN call.fn
    ELSE o.name

\* enum HsmError: the variants error.rs declares.
HsmError ==
    { "AuthenticationFailed", "SigningFailed", "ListingFailed", "VerificationFailed",
      "InvalidKey", "InvalidInput", "GetPublicKeyFailed" }

\* The error each function makes of a failed lock().
LockError(fname) ==
    Err(CASE fname = "sign" -> "SigningFailed"
          [] fname = "verify" -> "VerificationFailed"
          [] fname = "delete_object" -> "DeletionFailed"
          [] OTHER -> "ListingFailed",
        <<"Failed to lock client">>)

\* A sign that re-encodes the device's signature as raw r || s.
SignRet_reencode(resp) ==
    IF ~resp.ok THEN Err("SigningFailed", <<resp.err>>)
    ELSE LET p == FromDer(resp.val)
         IN  IF p.ok THEN Ok(RawEncode(p.r, p.s)) ELSE Ok(resp.val)

\* sign, lines 27-31.
SignRet(resp) ==
    IF resp.ok THEN Ok(resp.val) ELSE Err("SigningFailed", <<resp.err>>)

\* verify, lines 48-104.
VerifyRet(o, resp) ==
    IF ~resp.ok THEN Err("InvalidKey", <<"Failed to get public key", resp.err>>)
    ELSE VerifyLocal(resp.val, Sha256(o.data), o.sig)

\* get_object_info, lines 159-163.
GetObjectInfoRet(resp) ==
    IF resp.ok THEN Ok(resp.val)
    ELSE Err("ListingFailed", <<"Failed to get object info", resp.err>>)

\* get_public_key, lines 173-177.
GetPublicKeyRet(resp) ==
    IF resp.ok THEN Ok(resp.val)
    ELSE Err("GetPublicKeyFailed", <<"Failed to get public key", resp.err>>)

\* delete_object, lines 206-209.
DeleteRet(resp) ==
    IF resp.ok THEN Ok(<<>>)
    ELSE Err("DeletionFailed", <<"Failed to delete object", resp.err>>)

NoKey == [some |-> FALSE, hex |-> <<>>]

SomeKey(h) == [some |-> TRUE, hex |-> h]

\* A summary that leaves the public key out.
Summary_dropkey(info, pk) ==
    [object_id |-> info.object_id, object_type |-> info.object_type,
     algorithm |-> info.algorithm, label |-> info.label,
     sequence |-> info.sequence, public_key_hex |-> NoKey]

\* ObjectSummary, lines 237-244.
Summary(info, pk) ==
    [object_id |-> info.object_id, object_type |-> info.object_type,
     algorithm |-> info.algorithm, label |-> info.label,
     sequence |-> info.sequence, public_key_hex |-> pk]

\* A loop that walks the entries from the last to the first.
ListNext_reverse(entries, summaries) ==
    IF Len(summaries) = Len(entries) THEN Returned(Ok(summaries))
    ELSE LET e == entries[Len(entries) - Len(summaries)]
         IN  Calling(RemoteCall("get_object_info", e.object_id, e.object_type, <<>>),
                     entries, NoInfo, summaries)

\* list_object_summaries, lines 227-247: the loop from the entry after the
\* summaries built so far up to its next lookup, or the return.
ListNext(entries, summaries) ==
    IF Len(summaries) = Len(entries) THEN Returned(Ok(summaries))
    ELSE LET e == entries[Len(summaries) + 1]
         IN  Calling(RemoteCall("get_object_info", e.object_id, e.object_type, <<>>),
                     entries, NoInfo, summaries)

\* A listing that returns the summaries built so far when a lookup fails.
ListStep_partial(l, resp) ==
    CASE l.call.fn = "list_objects" ->
            IF ~resp.ok THEN Returned(Err("ListingFailed", <<resp.err>>))
            ELSE ListNext(resp.val, <<>>)
      [] l.call.fn = "get_object_info" ->
            LET r == GetObjectInfoRet(resp)
            IN  IF ~r.ok THEN Returned(Ok(l.summaries))
                ELSE IF r.val.object_type = AsymmetricKey
                THEN Calling(RemoteCall("get_public_key", r.val.object_id, "none", <<>>),
                             l.entries, r.val, l.summaries)
                ELSE ListNext(l.entries, Append(l.summaries, Summary(r.val, NoKey)))
      [] l.call.fn = "get_public_key" ->
            LET r == GetPublicKeyRet(resp)
            IN  IF ~r.ok THEN Returned(Ok(l.summaries))
                ELSE ListNext(l.entries,
                              Append(l.summaries, Summary(l.info, SomeKey(HexEncode(r.val)))))

\* list_object_summaries after the answer to its remote call in flight.
ListStep(l, resp) ==
    CASE l.call.fn = "list_objects" ->
            IF ~resp.ok THEN Returned(Err("ListingFailed", <<resp.err>>))
            ELSE ListNext(resp.val, <<>>)
      [] l.call.fn = "get_object_info" ->
            LET r == GetObjectInfoRet(resp)
            IN  IF ~r.ok THEN Returned(r)
                ELSE IF r.val.object_type = AsymmetricKey
                THEN Calling(RemoteCall("get_public_key", r.val.object_id, "none", <<>>),
                             l.entries, r.val, l.summaries)
                ELSE ListNext(l.entries, Append(l.summaries, Summary(r.val, NoKey)))
      [] l.call.fn = "get_public_key" ->
            LET r == GetPublicKeyRet(resp)
            IN  IF ~r.ok THEN Returned(r)
                ELSE ListNext(l.entries,
                              Append(l.summaries, Summary(l.info, SomeKey(HexEncode(r.val)))))

\* An operation that locks the client again for the same remote call when
\* the device fails it.
Step_retry(o, l, resp) ==
    IF ~resp.ok THEN [pc |-> "lock", ret |-> NoRet, loc |-> l]
    ELSE CASE o.name = "sign" -> Returned(SignRet(resp))
           [] o.name = "verify" -> Returned(VerifyRet(o, resp))
           [] o.name = "delete_object" -> Returned(DeleteRet(resp))
           [] o.name = "get_object_info" -> Returned(GetObjectInfoRet(resp))
           [] o.name = "get_public_key" -> Returned(GetPublicKeyRet(resp))
           [] o.name = "list_object_summaries" -> ListStep(l, resp)

\* An operation after the answer to its remote call in flight.
Step(o, l, resp) ==
    CASE o.name = "sign" -> Returned(SignRet(resp))
      [] o.name = "verify" -> Returned(VerifyRet(o, resp))
      [] o.name = "delete_object" -> Returned(DeleteRet(resp))
      [] o.name = "get_object_info" -> Returned(GetObjectInfoRet(resp))
      [] o.name = "get_public_key" -> Returned(GetPublicKeyRet(resp))
      [] o.name = "list_object_summaries" -> ListStep(l, resp)

\* ------------------------------------------------------------------- state

VARIABLES
    active_client,  \* SessionManager.active_client: None or the capability held
    lock,           \* the active capability's Mutex: its holder, 0 when free
    poisoned,       \* the active capability's Mutex is poisoned
    objects,        \* device: the objects it holds, in enumeration order
    pkform,         \* device: the format in which it exports public keys
    pc,             \* caller: "idle", "lock", "remote" (call in flight) or "done"
    op,             \* caller: the operation it is in
    ret,            \* caller: what the operation returned
    calls,          \* caller: the remote calls its operation has issued
    loc,            \* caller: the operation's local variables
    held,           \* caller: the last signature that sign returned to it
    kept,           \* caller: the handle from HsmClient::client it keeps:
                    \* "none", "live" (of the active capability) or "stale"
    auth_password_input, \* HsmApp: content of the password field
    auth_status,         \* HsmApp: status line of the authentication screen
    text_input,          \* HsmApp: content of the text field
    output_text,         \* HsmApp: output of the sign/verify screen
    signature,           \* HsmApp: the last signature, or none
    current_screen,      \* HsmApp: "Auth", "SignVerify" or "KeysConfig"
    keys_output,         \* HsmApp: status line of the keys screen
    keys_table,          \* HsmApp: the table shown on the keys screen, or none
    keys_data,           \* HsmApp: the cached listing
    selected_key_row     \* HsmApp: the selected row, or none

session == <<active_client>>

mutex == <<lock, poisoned>>

device == <<objects, pkform>>

callers == <<pc, op, ret, calls, loc, held>>

handles == <<kept>>

app == <<auth_password_input, auth_status, text_input, output_text, signature,
         current_screen, keys_output, keys_table, keys_data, selected_key_row>>

vars == <<active_client, lock, poisoned, objects, pkform,
          pc, op, ret, calls, loc, held, kept,
          auth_password_input, auth_status, text_input, output_text, signature,
          current_screen, keys_output, keys_table, keys_data, selected_key_row>>

NoSig == [some |-> FALSE, key |-> 0, data |-> <<>>, sig |-> <<>>]

\* Option<Vec<u8>>, Option<usize> and Option<Entity<TableState>> of HsmApp.
NoSignature == [some |-> FALSE, bytes |-> <<>>]

SomeSignature(b) == [some |-> TRUE, bytes |-> b]

NoRow == [some |-> FALSE, ix |-> 0]

NoTable == [some |-> FALSE, rows |-> <<>>]

\* HsmApp::new, without its session manager.
HsmApp_new ==
    /\ auth_password_input = ""
    /\ auth_status = "Please authenticate to the YubiHSM session."
    /\ text_input = <<>>
    /\ output_text = <<"Ready. Type text and click Sign.">>
    /\ signature = NoSignature
    /\ current_screen = "Auth"
    /\ keys_output = <<"Click List keys to query objects from the YubiHSM2.">>
    /\ keys_table = NoTable
    /\ keys_data = <<>>
    /\ selected_key_row = NoRow

InitWith(forms) ==
    /\ HsmApp_new
    /\ active_client = None
    /\ lock = 0
    /\ poisoned = FALSE
    /\ objects = ProvisionedObjects
    /\ pkform \in forms
    /\ pc = [c \in Callers |-> "idle"]
    /\ op = [c \in Callers |-> NoOp]
    /\ ret = [c \in Callers |-> NoRet]
    /\ calls = [c \in Callers |-> <<>>]
    /\ loc = [c \in Callers |-> NoLocals]
    /\ held = [c \in Callers |-> NoSig]
    /\ kept = [c \in Callers |-> "none"]

Init == InitWith({"raw64"})

\* ---------------------------------------------------------- SessionManager

\* SessionManager::is_authenticated
is_authenticated == active_client # None

\* SessionManager::active_client
active_client_get(ac) ==
    IF ac = None
    THEN Err("AuthenticationFailed",
             <<"No active HSM session. Please authenticate first.">>)
    ELSE Ok(ac)

\* HsmClient::connect: the new capability, or AuthenticationFailed.
HsmClient_connect(config, fresh, fault) ==
    IF ClientOpen(config, objects, fault) THEN Ok(fresh)
    ELSE Err("AuthenticationFailed", <<"open failed">>)

\* The session manager drops its HsmClient: the handles that callers keep of
\* it are handles of a capability that is no longer the active one.
Dropped(k) == [c \in Callers |-> IF k[c] = "live" THEN "stale" ELSE k[c]]

\* A session manager that can be changed while callers borrow its client.
NoBorrow_free == TRUE

\* connect and disconnect take &mut self: no caller holds the &HsmClient that
\* active_client() lent it.
NoBorrow == \A c \in Callers : pc[c] = "idle"

\* A capability that is not the one held: capabilities are told apart only
\* from the one they replace.
Fresh(ac) == IF ac = 1 THEN 2 ELSE 1

\* connect that stores the capability it asked for before it knows the outcome.
SessionManager_connect_eager(ac, config, fault) ==
    LET r == HsmClient_connect(config, Fresh(ac), fault)
    IN  [ret |-> IF r.ok THEN Ok(<<>>) ELSE r, active_client |-> Fresh(ac)]

\* connect that drops the session held before it attempts the new one.
SessionManager_connect_dropfirst(ac, config, fault) ==
    LET r == HsmClient_connect(config, Fresh(ac), fault)
    IN  IF r.ok THEN [ret |-> Ok(<<>>), active_client |-> r.val]
        ELSE [ret |-> r, active_client |-> None]

\* SessionManager::connect on the session manager holding ac: what it returns
\* and what the session manager holds afterwards. The `?` returns before the
\* assignment when HsmClient::connect fails.
SessionManager_connect(ac, config, fault) ==
    LET r == HsmClient_connect(config, Fresh(ac), fault)
    IN  IF r.ok THEN [ret |-> Ok(<<>>), active_client |-> r.val]
        ELSE [ret |-> r, active_client |-> ac]

Connect(config, fault) ==
    LET r == SessionManager_connect(active_client, config, fault)
    IN  /\ NoBorrow
        /\ active_client' = r.active_client
        /\ lock' = IF r.ret.ok THEN 0 ELSE lock
        /\ poisoned' = IF r.ret.ok THEN FALSE ELSE poisoned
        /\ kept' = IF r.ret.ok THEN Dropped(kept) ELSE kept
        /\ UNCHANGED <<device, callers, app>>

\* A disconnect that toggles: it opens a session when none is active.
SessionManager_disconnect_toggle(ac) == IF ac = None THEN Fresh(None) ELSE None

\* SessionManager::disconnect on the session manager holding ac: what the
\* session manager holds afterwards. It returns nothing.
SessionManager_disconnect(ac) == None

Disconnect ==
    /\ NoBorrow
    /\ active_client' = SessionManager_disconnect(active_client)
    /\ lock' = 0
    /\ poisoned' = FALSE
    /\ kept' = Dropped(kept)
    /\ UNCHANGED <<device, callers, app>>

\* ------------------------------------------------------------------ callers

\* A call that silently opens a session when none is active.
Invoke_autoconnect(c, o) ==
    LET st == Enter(o)
    IN  /\ pc[c] = "idle"
        /\ active_client' = IF active_client = None THEN Fresh(None) ELSE active_client
        /\ pc' = [pc EXCEPT ![c] = st.pc]
        /\ op' = [op EXCEPT ![c] = o]
        /\ ret' = [ret EXCEPT ![c] = st.ret]
        /\ loc' = [loc EXCEPT ![c] = st.loc]
        /\ calls' = [calls EXCEPT ![c] = <<>>]
        /\ UNCHANGED <<mutex, device, held, app, kept>>

\* A caller asks the session manager for the active client and calls an
\* operation with it; the operation runs to its first lock() or early return.
Invoke(c, o) ==
    LET ac == active_client_get(active_client)
        st == IF ac.ok THEN Enter(o) ELSE Returned(ac)
    IN  /\ pc[c] = "idle"
        /\ pc' = [pc EXCEPT ![c] = st.pc]
        /\ op' = [op EXCEPT ![c] = IF ac.ok THEN o ELSE NoOp]
        /\ ret' = [ret EXCEPT ![c] = st.ret]
        /\ loc' = [loc EXCEPT ![c] = st.loc]
        /\ calls' = [calls EXCEPT ![c] = <<>>]
        /\ UNCHANGED <<session, mutex, device, held, app, kept>>

\* A lock that never makes a caller wait.
MutexAvailable_always == TRUE

\* Mutex::lock may return once no other guard is alive.
MutexAvailable == lock = 0

\* The remote call issued without waiting for the guard.
Acquire_nolock(c) ==
    /\ pc[c] = "lock"
    /\ pc' = [pc EXCEPT ![c] = "remote"]
    /\ lock' = c
    /\ calls' = [calls EXCEPT ![c] = Append(@, loc[c].call.fn)]
    /\ UNCHANGED <<session, poisoned, device, op, held, ret, loc, app, kept>>

\* hsm_client.lock(): the guard, or the function's error when the Mutex is
\* poisoned; the remote call is issued under the guard.
Acquire(c) ==
    /\ pc[c] = "lock"
    /\ MutexAvailable
    /\ IF poisoned
       THEN /\ pc' = [pc EXCEPT ![c] = "done"]
            /\ ret' = [ret EXCEPT ![c] = LockError(Locker(op[c], loc[c].call))]
            /\ loc' = [loc EXCEPT ![c] = NoLocals]
            /\ UNCHANGED <<lock, calls>>
       ELSE /\ pc' = [pc EXCEPT ![c] = "remote"]
            /\ lock' = c
            /\ calls' = [calls EXCEPT ![c] = Append(@, loc[c].call.fn)]
            /\ UNCHANGED <<ret, loc>>
    /\ UNCHANGED <<session, poisoned, device, op, held, app, kept>>

\* A completion that drops the session when the operation fails.
Remote_teardown(c, k, fault) ==
    LET call == loc[c].call
        resp == DeviceExec(call, objects, pkform, k, fault)
        st == Step(op[c], loc[c], resp)
    IN  /\ pc[c] = "remote"
        /\ objects' = resp.objects
        /\ pc' = [pc EXCEPT ![c] = st.pc]
        /\ ret' = [ret EXCEPT ![c] = st.ret]
        /\ loc' = [loc EXCEPT ![c] = st.loc]
        /\ lock' = 0
        /\ active_client' = IF st.pc = "done" /\ ~st.ret.ok THEN None ELSE active_client
        /\ UNCHANGED <<poisoned, pkform, op, calls, held, app, kept>>

\* A listing that keeps the guard of its enumeration while its per-object
\* lookups lock the client themselves.
Remote_holdlock(c, k, fault) ==
    LET call == loc[c].call
        resp == DeviceExec(call, objects, pkform, k, fault)
        st == Step(op[c], loc[c], resp)
    IN  /\ pc[c] = "remote"
        /\ objects' = resp.objects
        /\ pc' = [pc EXCEPT ![c] = st.pc]
        /\ ret' = [ret EXCEPT ![c] = st.ret]
        /\ loc' = [loc EXCEPT ![c] = st.loc]
        /\ lock' = IF st.pc = "lock" THEN c ELSE 0
        /\ UNCHANGED <<session, poisoned, pkform, op, calls, held, app, kept>>

\* The remote call in flight completes: the device acts and answers, the
\* operation goes on to its return or to its next lock(), and the guard is
\* dropped.
Remote(c, k, fault) ==
    LET call == loc[c].call
        resp == DeviceExec(call, objects, pkform, k, fault)
        st == Step(op[c], loc[c], resp)
    IN  /\ pc[c] = "remote"
        /\ objects' = resp.objects
        /\ pc' = [pc EXCEPT ![c] = st.pc]
        /\ ret' = [ret EXCEPT ![c] = st.ret]
        /\ loc' = [loc EXCEPT ![c] = st.loc]
        /\ lock' = 0
        /\ UNCHANGED <<session, poisoned, pkform, op, calls, held, app, kept>>

\* The caller takes the result; with keep, it keeps a signature that sign
\* returned, with the key id and the message it signed.
Return(c, keep) ==
    /\ pc[c] = "done"
    /\ held' = [held EXCEPT ![c] =
                  IF keep /\ op[c].name = "sign" /\ ret[c].ok
                  THEN [some |-> TRUE, key |-> op[c].id, data |-> op[c].data,
                        sig |-> ret[c].val]
                  ELSE @]
    /\ pc' = [pc EXCEPT ![c] = "idle"]
    /\ op' = [op EXCEPT ![c] = NoOp]
    /\ ret' = [ret EXCEPT ![c] = NoRet]
    /\ calls' = [calls EXCEPT ![c] = <<>>]
    /\ UNCHANGED <<session, mutex, device, loc, app, kept>>

\* HsmClient::client hands out the Arc<Mutex<Client>>: a caller locks it and
\* calls the yubihsm client's delete_object itself.
RawDelete(c, id, ty) ==
    LET resp == DeviceExec(RemoteCall("delete_object", id, ty, <<>>),
                           objects, pkform, Nonce(0, 0, FALSE), FALSE)
    IN  /\ pc[c] = "idle"
        /\ is_authenticated
        /\ MutexAvailable
        /\ ~poisoned
        /\ objects' = resp.objects
        /\ UNCHANGED <<session, mutex, pkform, callers, app, kept>>

\* A holder of the Arc<Mutex<Client>> panics with the guard alive.
RawPanic(c) ==
    /\ pc[c] = "idle"
    /\ is_authenticated
    /\ MutexAvailable
    /\ ~poisoned
    /\ poisoned' = TRUE
    /\ UNCHANGED <<session, lock, device, callers, app, kept>>

\* ----------------------------------------------------------- specification

Hello == <<104, 101, 108, 108, 111>>

Hell0 == <<104, 101, 108, 108, 48>>

Configs ==
    { [auth_key_id |-> DEFAULT_AUTH_KEY_ID, auth_password |-> pw] :
        pw \in {"password", "wrong"} }

ObjectTypes == {AuthenticationKey, AsymmetricKey}

ObjectIds == {DEFAULT_AUTH_KEY_ID, DEFAULT_SIGNING_KEY_ID}

\* A signature of Hello under the provisioned signing key.
HelloSig ==
    DerEncode(RScalar(Nonce(0, 0, FALSE)), SScalar(1, Sha256(Hello), Nonce(0, 0, FALSE)))

\* The calls the concurrent callers make.
CoreOps ==
    { Op("sign", DEFAULT_SIGNING_KEY_ID, "none", d, <<>>) : d \in {<<>>, Hello} }
      \cup { Op("verify", DEFAULT_SIGNING_KEY_ID, "none", d, HelloSig) : d \in {<<>>, Hello} }
      \cup { Op("get_object_info", DEFAULT_SIGNING_KEY_ID, AsymmetricKey, <<>>, <<>>),
              Op("get_public_key", DEFAULT_SIGNING_KEY_ID, "none", <<>>, <<>>),
              Op("delete_object", DEFAULT_SIGNING_KEY_ID, AsymmetricKey, <<>>, <<>>),
              Op("delete_object", DEFAULT_AUTH_KEY_ID, AuthenticationKey, <<>>, <<>>),
              Op("delete_object", DEFAULT_SIGNING_KEY_ID, AuthenticationKey, <<>>, <<>>),
              Op("list_object_summaries", 0, "none", <<>>, <<>>) }

\* The nonce the device draws under Spec.
CoreNonces == {Nonce(0, 0, FALSE)}

Next ==
    \/ \E config \in Configs, fault \in BOOLEAN : Connect(config, fault)
    \/ Disconnect
    \/ \E c \in Callers : \E o \in CoreOps : Invoke(c, o)
    \/ \E c \in Callers : Acquire(c)
    \/ \E c \in Callers, k \in CoreNonces, fault \in BOOLEAN : Remote(c, k, fault)
    \/ \E c \in Callers : Return(c, FALSE)
    \/ \E c \in Callers, i \in ObjectIds, t \in ObjectTypes : RawDelete(c, i, t)

Spec == Init /\ [][Next]_vars

\* ------------------------------------------------------------------ claims

ActiveClientFails == active_client_get(active_client).kind = "AuthenticationFailed"

ActiveClientSucceeds ==
    /\ active_client_get(active_client).ok
    /\ active_client_get(active_client).val = active_client

ConnectSucceeds ==
    \E config \in Configs, fault \in BOOLEAN :
        /\ Connect(config, fault)
        /\ SessionManager_connect(active_client, config, fault).ret.ok

\* C1: active_client fails with AuthenticationFailed in the initial state and
\* keeps failing over every step that is not a successful connect; it
\* succeeds in the state right after a successful connect, and fails with
\* AuthenticationFailed in the state right after a disconnect.
C1_ActiveClientLifecycle ==
    /\ ActiveClientFails
    /\ [][ /\ (ActiveClientFails /\ ~ConnectSucceeds) => ActiveClientFails'
           /\ ConnectSucceeds => ActiveClientSucceeds'
           /\ Disconnect => ActiveClientFails' ]_vars

\* C1 witness: a session is active (a connect has succeeded) and a caller
\* has an operation under way with the client active_client() lent it.
C1_Witness == ActiveClientSucceeds /\ \E c \in Callers : pc[c] = "remote"

IsDeleteAuth(o) == o.name = "delete_object" /\ o.ty = AuthenticationKey

\* C2: delete_object with object_type AuthenticationKey has returned
\* InvalidInput as soon as it is called, whatever the object id and whatever
\* the device holds: it has issued no remote call and does not hold the lock,
\* and the step that calls it leaves the device's objects and the lock as
\* they were.
C2_DeleteAuthKeyRejected ==
    /\ [](\A c \in Callers :
            IsDeleteAuth(op[c]) =>
                /\ pc[c] = "done"
                /\ ret[c].kind = "InvalidInput"
                /\ ret[c].detail = <<"Deleting authentication keys is not allowed">>
                /\ calls[c] = <<>>
                /\ lock # c)
    /\ [][\A c \in Callers :
            (IsDeleteAuth(op'[c]) /\ ~IsDeleteAuth(op[c])) =>
                (objects' = objects /\ lock' = lock)]_vars

\* C2 witness: the rejection happened for an object id that names no
\* authentication key, on a device whose signing key is already deleted.
C2_Witness ==
    \E c \in Callers :
        /\ IsDeleteAuth(op[c])
        /\ op[c].id = DEFAULT_SIGNING_KEY_ID
        /\ pc[c] = "done"
        /\ Find(objects, DEFAULT_SIGNING_KEY_ID, AsymmetricKey) = 0

\* A function of hsm::operations has a delete request for an
\* authentication key pending or in flight.
OperationDeletesAuthKey ==
    \E c \in Callers :
        /\ loc[c].call.fn = "delete_object"
        /\ loc[c].call.ty = AuthenticationKey

\* A caller sends the device a delete request for an authentication key
\* through the handle of HsmClient::client.
RawDeletesAuthKey ==
    \E c \in Callers, i \in ObjectIds : RawDelete(c, i, AuthenticationKey)

AuthKeyPresent == Find(objects, DEFAULT_AUTH_KEY_ID, AuthenticationKey) # 0

\* C3 as stated: over every sequence of calls to the core's public
\* operations, HsmClient::client included, the device never receives a
\* delete request for an object of type AuthenticationKey.
C3_NoAuthKeyDeleteRequest ==
    /\ [](~OperationDeletesAuthKey)
    /\ [][~RawDeletesAuthKey]_vars

\* C3 amended: no function of hsm::operations ever sends the device a delete
\* request for an AuthenticationKey; the device's authentication key
\* disappears only in a step of a caller that uses the handle of
\* HsmClient::client directly.
C3_OperationsNeverDeleteAuthKey ==
    /\ [](~OperationDeletesAuthKey)
    /\ [][(AuthKeyPresent /\ ~AuthKeyPresent') => RawDeletesAuthKey]_vars

\* C3 witness: the authentication key is gone from the device while callers
\* have called delete_object on it.
C3_Witness ==
    /\ ~AuthKeyPresent
    /\ \E c \in Callers : IsDeleteAuth(op[c]) /\ op[c].id = DEFAULT_AUTH_KEY_ID

\* C4: in every state, a connect attempt that fails returns
\* AuthenticationFailed and leaves the session manager holding what it held;
\* and the capability held changes to another capability only in a step
\* that is a successful connect.
C4_FailedConnectKeepsSession ==
    /\ [](\A config \in Configs, fault \in BOOLEAN :
            LET r == SessionManager_connect(active_client, config, fault)
            IN  ~ClientOpen(config, objects, fault) =>
                    /\ r.ret.kind = "AuthenticationFailed"
                    /\ r.active_client = active_client)
    /\ [][(active_client' # active_client /\ active_client' # None)
            => ConnectSucceeds]_vars

\* C4 witness: the second capability is the active one (a connect replaced an
\* active session), no caller borrows it, and connect attempts with the
\* wrong password fail in this state.
C4_Witness ==
    /\ active_client = 2
    /\ NoBorrow
    /\ \E config \in Configs : ~ClientOpen(config, objects, FALSE)

InFlight == {c \in Callers : pc[c] = "remote"}

\* C5: at most one remote call is in flight at any time, and the caller
\* whose call is in flight holds the capability's lock.
C5_OneRemoteCallInFlight ==
    /\ Cardinality(InFlight) <= 1
    /\ \A c \in InFlight : lock = c

\* C5 witness: one caller's remote call is in flight while another caller
\* waits for the lock.
C5_Witness ==
    \E c, d \in Callers : pc[c] = "remote" /\ pc[d] = "lock"

\* list_object_summaries between its first and its last remote call.
MidList(c) ==
    /\ op[c].name = "list_object_summaries"
    /\ pc[c] \in {"lock", "remote"}
    /\ calls[c] # <<>>
    /\ loc[c].call.fn # "list_objects"

\* Caller d's remote call completes in this step.
Completes(d) == pc[d] = "remote" /\ pc'[d] # "remote"

\* C6 as stated: no other caller's remote call takes effect on the device
\* between the first and the last remote call of one list_object_summaries.
C6_ListNotInterleaved ==
    [][\A c, d \in Callers :
        (c # d /\ MidList(c) /\ Completes(d)) => objects' = objects]_vars

\* C6 amended: remote calls never overlap: while one caller's remote call
\* stays in flight no step changes the device's objects, every change of the
\* objects made by an operation is made by the holder of the lock, and sign,
\* verify, get_object_info, get_public_key and delete_object issue at most
\* one remote call, so they are atomic; list_object_summaries issues several
\* and gives up the lock between them.
C6_RemoteCallsAtomic ==
    /\ [](\A c \in Callers :
            op[c].name # "list_object_summaries" => Len(calls[c]) <= 1)
    /\ [][ /\ \A c \in Callers :
                (pc[c] = "remote" /\ pc'[c] = "remote") => objects' = objects
           /\ \A d \in Callers :
                (Completes(d) /\ objects' # objects) => lock = d ]_vars

\* C6 witness: a list_object_summaries is between two of its remote calls
\* and the device no longer holds all the objects it enumerated.
C6_Witness ==
    \E c \in Callers :
        /\ MidList(c)
        /\ Len(objects) < Len(loc[c].entries)

\* The operation of caller c returns an error in this step.
Fails(c) ==
    /\ pc[c] # "done"
    /\ pc'[c] = "done"
    /\ op'[c].name \in {"sign", "verify", "list_object_summaries", "delete_object"}
    /\ ~ret'[c].ok

\* C7: a step in which sign, verify, list_object_summaries or delete_object
\* returns an error leaves the session manager's capability, and so
\* is_authenticated, as it was.
C7_FailureKeepsSession ==
    [][\A c \in Callers :
        Fails(c) => (active_client' = active_client /\ is_authenticated')]_vars

\* C7 witness: a sign has failed on the device and the session is active.
C7_Witness ==
    \E c \in Callers :
        /\ pc[c] = "done"
        /\ op[c].name = "sign"
        /\ ret[c].kind = "SigningFailed"
        /\ is_authenticated

\* ------------------------------------------- specification: sign and verify

\* The caller of SpecCrypto.
CryptoCaller == CHOOSE c \in Callers : \A d \in Callers : c <= d

Messages == {<<>>, Hello, Hell0}

\* Byte positions and bits at which a held signature is mutated: the
\* SEQUENCE tag, its length, the first byte of r, the last byte of s.
MutPositions(sig) == {1, 2, 5, Len(sig)}

MutBits == {0, 7}

\* Signature bytes of no acceptable shape, and raw bytes outside the scalar
\* range.
OddSignatures == { <<>>, Rep(63, 1), <<49>> \o Rep(69, 1), Rep(64, 0) }

\* The signature bytes a caller that holds h passes to verify: the signature
\* as sign returned it, its single-bit mutations, its raw r || s re-encoding,
\* and odd ones.
SigArgs(h) ==
    IF ~h.some THEN OddSignatures
    ELSE {h.sig}
           \cup { FlipBit(h.sig, i, j) : i \in MutPositions(h.sig), j \in MutBits }
           \cup (LET p == FromDer(h.sig)
                 IN  IF p.ok THEN {RawEncode(p.r, p.s)} ELSE {})
           \cup OddSignatures

CryptoOps(h) ==
    { Op("sign", i, "none", d, <<>>) : i \in ObjectIds, d \in Messages }
      \cup { Op("verify", i, "none", d, sg) :
                i \in {DEFAULT_SIGNING_KEY_ID}, d \in Messages, sg \in SigArgs(h) }

InitCrypto == InitWith(PkForms)

NextCrypto ==
    \/ \E config \in Configs, fault \in BOOLEAN : Connect(config, fault)
    \/ Disconnect
    \/ \E o \in CryptoOps(held[CryptoCaller]) : Invoke(CryptoCaller, o)
    \/ Acquire(CryptoCaller)
    \/ \E k \in AllNonces, fault \in BOOLEAN : Remote(CryptoCaller, k, fault)
    \/ Return(CryptoCaller, TRUE)

SpecCrypto == InitCrypto /\ [][NextCrypto]_vars

\* ----------------------------------------------------- claims: sign, verify

IsEmptyMessage(o) == o.name \in {"sign", "verify"} /\ o.data = <<>>

\* C8: sign and verify called with an empty message have returned
\* InvalidInput as soon as they are called, for every key id and signature:
\* they have issued no remote call and do not hold the lock.
C8_EmptyMessageRejected ==
    \A c \in Callers :
        IsEmptyMessage(op[c]) =>
            /\ pc[c] = "done"
            /\ ret[c].kind = "InvalidInput"
            /\ ret[c].detail = <<"Data cannot be empty">>
            /\ calls[c] = <<>>
            /\ lock # c

\* C8 witness: a verify of an empty message with a signature that sign
\* returned has been rejected.
C8_Witness ==
    \E c \in Callers :
        /\ op[c].name = "verify"
        /\ op[c].data = <<>>
        /\ held[c].some
        /\ op[c].sig = held[c].sig
        /\ pc[c] = "done"

\* Caller c's verify has returned, and the device had answered its request
\* for the public key with a well-formed key.
VerifiedWithKey(c) ==
    /\ op[c].name = "verify"
    /\ pc[c] = "done"
    /\ op[c].data # <<>>
    /\ ret[c].kind # "InvalidKey"

\* Caller c verifies the signature it holds, with the key id and the message
\* that sign was given for it.
VerifiesOwnSignature(c) ==
    /\ held[c].some
    /\ op[c].id = held[c].key
    /\ op[c].data = held[c].data
    /\ op[c].sig = held[c].sig

\* C9: when sign has returned a signature for a key id and a non-empty
\* message, a verify with the same key id, the same message and that
\* signature, for which the device answers the public key, returns Ok(true).
C9_SignThenVerifyTrue ==
    \A c \in Callers :
        (VerifiedWithKey(c) /\ VerifiesOwnSignature(c)) =>
            (ret[c].ok /\ ret[c].val = TRUE)

\* The signature caller c verifies is a single-bit mutation of the one it holds.
VerifiesMutation(c) ==
    /\ held[c].some
    /\ op[c].sig # held[c].sig
    /\ \E i \in 1..Len(held[c].sig), j \in 0..7 : op[c].sig = FlipBit(held[c].sig, i, j)

\* Caller c verifies the signature it holds against another message.
VerifiesOtherMessage(c) ==
    /\ held[c].some
    /\ op[c].sig = held[c].sig
    /\ op[c].data # held[c].data

HelloScalars ==
    { [r |-> RScalar(k), s |-> SScalar(PrivOf(DEFAULT_SIGNING_KEY_ID), Sha256(Hello), k)] :
        k \in AllNonces }

\* Further signature bytes: 64 bytes that begin with 0x30 and are two scalars
\* in range, and more than 64 bytes that begin with 0x30 and are no DER.
ShapedSignatures ==
    OddSignatures \cup { <<48>> \o Rep(63, 1), <<48, 70>> \o Rep(70, 1) }

ShapeSigs ==
    { DerEncode(g.r, g.s) : g \in HelloScalars }
      \cup { RawEncode(g.r, g.s) : g \in HelloScalars }
      \cup ShapedSignatures

ShapeOps ==
    { Op("verify", DEFAULT_SIGNING_KEY_ID, "none", d, sg) :
        d \in {Hello, Hell0}, sg \in ShapeSigs }

InitShapes == InitWith(KeyForms)

NextShapes ==
    \/ \E config \in Configs, fault \in BOOLEAN : Connect(config, fault)
    \/ Disconnect
    \/ \E o \in ShapeOps : Invoke(CryptoCaller, o)
    \/ Acquire(CryptoCaller)
    \/ \E fault \in BOOLEAN : Remote(CryptoCaller, Nonce(0, 0, FALSE), fault)
    \/ Return(CryptoCaller, FALSE)

SpecShapes == InitShapes /\ [][NextShapes]_vars

\* ------------------------------------------- claims: public key, signature

\* Caller c's verify of a non-empty message has returned after the device
\* answered its request for the public key.
VerifyAnswered(c) ==
    /\ op[c].name = "verify"
    /\ pc[c] = "done"
    /\ op[c].data # <<>>
    /\ ~(ret[c].kind = "InvalidKey" /\ ret[c].detail[1] = "Failed to get public key")

\* The bytes the device answered caller c's request for the public key with.
AnsweredKey(c) == PublicKeyBytes(Pub(PrivOf(op[c].id)), pkform)

\* b without its first byte is a point of the curve.
IsPointAfterTag(b) ==
    [x |-> SubSeq(b, 2, ScalarLen + 1), y |-> Drop(b, ScalarLen + 1)] \in CurvePoints

\* C11: verify classifies the device's public key bytes by shape: 65 bytes
\* that begin with 0x04 are used as given and 64 bytes get 0x04 prepended,
\* and verify then fails with InvalidKey exactly when they are no point of
\* the curve; every other shape, 65 bytes under another first byte included,
\* fails with InvalidKey reporting the unexpected length.
C11_PublicKeyShapes ==
    \A c \in Callers :
        VerifyAnswered(c) =>
            LET pk == AnsweredKey(c)
            IN  CASE Len(pk) = 65 /\ pk[1] = 4 ->
                        IF IsPointAfterTag(pk) THEN ret[c].kind # "InvalidKey"
                        ELSE ret[c] = Err("InvalidKey", <<"Invalid public key (SEC1)">>)
                  [] Len(pk) = 64 ->
                        IF IsPointAfterTag(<<4>> \o pk) THEN ret[c].kind # "InvalidKey"
                        ELSE ret[c] = Err("InvalidKey", <<"Invalid public key (raw)">>)
                  [] OTHER ->
                        ret[c] = Err("InvalidKey", <<"Unexpected public key length", Len(pk)>>)

\* C11 witness: a device answered 65 bytes whose first byte is not 0x04 and
\* verify has failed with InvalidKey reporting the length 65.
C11_Witness ==
    \E c \in Callers :
        /\ VerifyAnswered(c)
        /\ Len(AnsweredKey(c)) = 65
        /\ AnsweredKey(c)[1] # 4
        /\ ret[c] = Err("InvalidKey", <<"Unexpected public key length", 65>>)

\* The other of the two forms in which a device exports a P-256 public key.
OtherForm(form) == IF form = "raw64" THEN "sec1" ELSE "raw64"

\* C12: a device that returns the 64-byte key K and a device that returns
\* 0x04 || K give the same verify result for every message and signature:
\* the result a verify has returned under one device is the result of the
\* same verify on the other device's key bytes, and both key bytes give the
\* same parsed point.
C12_KeyFormsVerifyAlike ==
    \A c \in Callers :
        (VerifyAnswered(c) /\ pkform \in PkForms) =>
            LET q == Pub(PrivOf(op[c].id))
                other == PublicKeyBytes(q, OtherForm(pkform))
            IN  /\ ret[c] = VerifyLocal(other, Sha256(op[c].data), op[c].sig)
                /\ VerifyingKeyOf(AnsweredKey(c)) = VerifyingKeyOf(other)
                /\ Len(AnsweredKey(c)) # Len(other)

\* C12 witness: under a device that exports 0x04 || K, a verify of a
\* signature that sign returned has returned Ok(true).
C12_Witness ==
    \E c \in Callers :
        /\ VerifyAnswered(c)
        /\ pkform = "sec1"
        /\ held[c].some
        /\ op[c].sig = held[c].sig
        /\ ret[c] = Ok(TRUE)

\* C13: once the public key is accepted, verify classifies the signature
\* bytes by shape: more than 64 bytes that begin with 0x30 are parsed as DER,
\* exactly 64 bytes are parsed as raw r || s whatever their first byte, and
\* every other shape fails with InvalidInput reporting the length; bytes
\* that do not parse in their branch fail with InvalidInput, and bytes that
\* parse give a verdict.
C13_SignatureShapes ==
    \A c \in Callers :
        (VerifyAnswered(c) /\ pkform \in PkForms) =>
            LET sg == op[c].sig
            IN  CASE Len(sg) > 64 /\ sg[1] = 48 ->
                        IF FromDer(sg).ok THEN ret[c].ok
                        ELSE ret[c] = Err("InvalidInput", <<"Invalid DER signature format">>)
                  [] Len(sg) = 64 ->
                        IF FromSlice(sg).ok THEN ret[c].ok
                        ELSE ret[c] = Err("InvalidInput", <<"Invalid raw signature format">>)
                  [] OTHER ->
                        ret[c] = Err("InvalidInput", <<"Invalid signature length", Len(sg)>>)

\* C13 witness: 64 signature bytes that begin with 0x30 were parsed as raw
\* r || s and verify has returned a verdict.
C13_Witness ==
    \E c \in Callers :
        /\ VerifyAnswered(c)
        /\ pkform \in PkForms
        /\ Len(op[c].sig) = 64
        /\ op[c].sig[1] = 48
        /\ ret[c].ok

\* C14: a DER-encoded signature and the raw r || s encoding of the same
\* (r, s) give the same verify result for every key and message: the result
\* a verify of DER bytes has returned is the result of the same verify on
\* the raw encoding of the scalars those DER bytes hold.
C14_DerAndRawVerifyAlike ==
    \A c \in Callers :
        (VerifyAnswered(c) /\ FromDer(op[c].sig).ok) =>
            LET p == FromDer(op[c].sig)
            IN  ret[c] = VerifyLocal(AnsweredKey(c), Sha256(op[c].data), RawEncode(p.r, p.s))

\* ------------------------------------------------- specification: listing

OPAQUE_ID == 7

SigningKeyObject ==
    Descriptor(DEFAULT_SIGNING_KEY_ID, AsymmetricKey, "EcP256", "signing", 0)

AuthKeyObject ==
    Descriptor(DEFAULT_AUTH_KEY_ID, AuthenticationKey, "YubicoAesAuthentication", "auth", 0)

OpaqueObject == Descriptor(OPAQUE_ID, Opaque, "OpaqueData", "blob", 0)

\* The objects of the devices listed, in each device's enumeration order.
DeviceLayouts ==
    { ProvisionedObjects,
      <<AuthKeyObject, SigningKeyObject>>,
      <<AuthKeyObject, OpaqueObject, SigningKeyObject>>,
      <<AuthKeyObject>> }

ListOps ==
    { Op("list_object_summaries", 0, "none", <<>>, <<>>),
      Op("delete_object", DEFAULT_SIGNING_KEY_ID, AsymmetricKey, <<>>, <<>>) }

InitList ==
    /\ HsmApp_new
    /\ active_client = None
    /\ lock = 0
    /\ poisoned = FALSE
    /\ objects \in DeviceLayouts
    /\ pkform = "raw64"
    /\ pc = [c \in Callers |-> "idle"]
    /\ op = [c \in Callers |-> NoOp]
    /\ ret = [c \in Callers |-> NoRet]
    /\ calls = [c \in Callers |-> <<>>]
    /\ loc = [c \in Callers |-> NoLocals]
    /\ held = [c \in Callers |-> NoSig]
    /\ kept = [c \in Callers |-> "none"]

NextList ==
    \/ \E config \in Configs, fault \in BOOLEAN : Connect(config, fault)
    \/ Disconnect
    \/ \E c \in Callers : \E o \in ListOps : Invoke(c, o)
    \/ \E c \in Callers : Acquire(c)
    \/ \E c \in Callers, fault \in BOOLEAN : Remote(c, Nonce(0, 0, FALSE), fault)
    \/ \E c \in Callers : Return(c, FALSE)

SpecList == InitList /\ [][NextList]_vars

\* ---------------------------------------------------------- claims: listing

\* Caller c is in list_object_summaries with a remote call in flight.
ListInFlight(c) == op[c].name = "list_object_summaries" /\ pc[c] = "remote"

\* The device's enumeration of the objects objs.
Enumeration(objs) == [i \in 1..Len(objs) |-> Entry(objs[i])]

\* The entries list_object_summaries of caller c works on once the call in
\* flight is answered: the device's enumeration when that call is list_objects.
EntriesOf(c) ==
    IF loc[c].call.fn = "list_objects" THEN Enumeration(objects) ELSE loc[c].entries

\* The summaries su are one per entry of en, in the order of en.
RowPerEntry(su, en) ==
    /\ Len(su) = Len(en)
    /\ \A i \in 1..Len(su) :
          /\ su[i].object_id = en[i].object_id
          /\ su[i].object_type = en[i].object_type

\* C15: a successful list_object_summaries returns exactly one summary per
\* descriptor the device enumerated, in the device's enumeration order: the
\* entries it works on are the enumeration and stay as they are until it
\* returns, and the list it returns has the i-th entry's id and type in its
\* i-th summary.
C15_SummariesFollowEnumeration ==
    [][\A c \in Callers :
          ListInFlight(c) =>
              /\ pc'[c] = "lock" => loc'[c].entries = EntriesOf(c)
              /\ (pc'[c] = "done" /\ ret'[c].ok) => RowPerEntry(ret'[c].val, EntriesOf(c))]_vars

\* C15 witness: the listing of a device that enumerates the authentication
\* key, an opaque object and the signing key, in that order, has returned
\* three summaries in that order.
C15_Witness ==
    \E c \in Callers :
        /\ op[c].name = "list_object_summaries"
        /\ pc[c] = "done"
        /\ ret[c].ok
        /\ Len(ret[c].val) = 3
        /\ [i \in 1..3 |-> ret[c].val[i].object_id]
              = <<DEFAULT_AUTH_KEY_ID, OPAQUE_ID, DEFAULT_SIGNING_KEY_ID>>

\* The summaries su carry a public key exactly on their asymmetric keys, and
\* the key they carry is the hex encoding of the device's public key bytes.
KeyOnlyOnAsymmetric(su) ==
    \A i \in 1..Len(su) :
        /\ su[i].public_key_hex.some <=> su[i].object_type = AsymmetricKey
        /\ su[i].public_key_hex.some =>
              su[i].public_key_hex.hex
                 = HexEncode(PublicKeyBytes(Pub(PrivOf(su[i].object_id)), pkform))
        /\ ~su[i].public_key_hex.some => su[i].public_key_hex.hex = <<>>

\* C16: in every result of list_object_summaries, and in the summaries it
\* has built so far, a summary carries a public key if and only if its
\* object type is asymmetric key.
C16_PublicKeyIffAsymmetric ==
    \A c \in Callers :
        op[c].name = "list_object_summaries" =>
            /\ KeyOnlyOnAsymmetric(loc[c].summaries)
            /\ (pc[c] = "done" /\ ret[c].ok) => KeyOnlyOnAsymmetric(ret[c].val)

\* C16 witness: the listing of a device with one authentication key and one
\* asymmetric key has returned two summaries, of which only the asymmetric
\* key's carries a public key.
C16_Witness ==
    \E c \in Callers :
        /\ op[c].name = "list_object_summaries"
        /\ pc[c] = "done"
        /\ ret[c].ok
        /\ Len(ret[c].val) = 2
        /\ ret[c].val[1].object_type = AuthenticationKey
        /\ ~ret[c].val[1].public_key_hex.some
        /\ ret[c].val[2].object_type = AsymmetricKey
        /\ ret[c].val[2].public_key_hex.some
        /\ Len(ret[c].val[2].public_key_hex.hex) = 128

\* Caller c's list_object_summaries has returned a failure.
ListFailed(c) ==
    /\ op[c].name = "list_object_summaries"
    /\ pc[c] = "done"
    /\ ~ret[c].ok

\* C17 as stated: whenever list_object_summaries fails, after the
\* enumeration or after any per-object lookup, it fails with ListingFailed.
C17_ListFailsWithListingFailed ==
    \A c \in Callers : ListFailed(c) => ret[c].kind = "ListingFailed"

\* C17, amended: list_object_summaries is all-or-nothing. In the step in
\* which its enumeration or one of its lookups is answered with a failure it
\* returns an error and no summaries, whatever it had built; the error is
\* ListingFailed for the enumeration and for an object info lookup, and
\* GetPublicKeyFailed for a public key lookup. It returns summaries only
\* when every lookup has succeeded.
C17_ListAllOrNothing ==
    [][\A c \in Callers :
          (ListInFlight(c) /\ pc'[c] # "remote") =>
              /\ (pc'[c] = "done" /\ ~ret'[c].ok) =>
                    /\ ret'[c].val = <<>>
                    /\ ret'[c].kind = IF loc[c].call.fn = "get_public_key"
                                       THEN "GetPublicKeyFailed"
                                       ELSE "ListingFailed"
              /\ ~DeviceExec(loc[c].call, objects, pkform, Nonce(0, 0, FALSE), FALSE).ok
                    => (pc'[c] = "done" /\ ~ret'[c].ok)
              /\ (pc'[c] = "done" /\ ret'[c].ok) =>
                    Len(ret'[c].val) = Len(EntriesOf(c))]_vars

\* C17 witness: a listing that had built the authentication key's summary
\* has failed at the signing key's public key and returned no summaries.
C17_Witness ==
    \E c \in Callers :
        /\ ListFailed(c)
        /\ calls[c] = <<"list_objects", "get_object_info", "get_object_info", "get_public_key">>
        /\ ret[c].kind = "GetPublicKeyFailed"
        /\ ret[c].val = <<>>

\* ------------------------------------------- specification: poisoned lock

\* One call of each operation.
PoisonOps ==
    { Op("sign", DEFAULT_SIGNING_KEY_ID, "none", Hello, <<>>),
      Op("verify", DEFAULT_SIGNING_KEY_ID, "none", Hello, HelloSig),
      Op("get_object_info", DEFAULT_SIGNING_KEY_ID, AsymmetricKey, <<>>, <<>>),
      Op("get_public_key", DEFAULT_SIGNING_KEY_ID, "none", <<>>, <<>>),
      Op("delete_object", DEFAULT_SIGNING_KEY_ID, AsymmetricKey, <<>>, <<>>),
      Op("list_object_summaries", 0, "none", <<>>, <<>>) }

\* One caller runs the operations; any holder of the raw handle may panic
\* with the guard alive, also between two remote calls of a listing.
NextPoison ==
    \/ \E config \in Configs, fault \in BOOLEAN : Connect(config, fault)
    \/ Disconnect
    \/ \E o \in PoisonOps : Invoke(CryptoCaller, o)
    \/ Acquire(CryptoCaller)
    \/ \E fault \in BOOLEAN : Remote(CryptoCaller, Nonce(0, 0, FALSE), fault)
    \/ Return(CryptoCaller, FALSE)
    \/ \E c \in Callers \ {CryptoCaller} : RawPanic(c)

SpecPoison == Init /\ [][NextPoison]_vars

\* ------------------------------------------------------ claims: lock failure

\* Caller c's operation has returned because lock() failed.
LockFailed(c) ==
    /\ pc[c] = "done"
    /\ ~ret[c].ok
    /\ ret[c].detail = <<"Failed to lock client">>

\* The failure kind that belongs to each operation.
OwnFailureKind(o) ==
    CASE o.name = "sign" -> "SigningFailed"
      [] o.name = "verify" -> "VerificationFailed"
      [] o.name = "delete_object" -> "DeletionFailed"
      [] o.name = "get_public_key" -> "GetPublicKeyFailed"
      [] OTHER -> "ListingFailed"

\* C18: an operation whose lock() failed has returned its own failure kind:
\* sign SigningFailed, verify VerificationFailed, list_object_summaries and
\* get_object_info ListingFailed, get_public_key GetPublicKeyFailed,
\* delete_object DeletionFailed.
C18_LockFailureOwnKind ==
    \A c \in Callers : LockFailed(c) => ret[c].kind = OwnFailureKind(op[c])

\* ------------------------------------------------------------------ HsmApp

\* An operation of hsm::operations that makes one remote call, called by a
\* handler and run to its return: what it returns and the objects the device
\* holds afterwards.
CallOnce(o, objs, form, pois, k, fault) ==
    LET st == Enter(o)
    IN  IF st.pc = "done" THEN [ret |-> st.ret, objects |-> objs]
        ELSE IF pois
        THEN [ret |-> LockError(Locker(o, st.loc.call)), objects |-> objs]
        ELSE LET resp == DeviceExec(st.loc.call, objs, form, k, fault)
             IN  [ret |-> Step(o, st.loc, resp).ret, objects |-> resp.objects]

\* What render shows: without a session only the authentication screen, with
\* a session the sidebar and the current screen.
Shows(screen) ==
    IF is_authenticated THEN current_screen = screen ELSE screen = "Auth"

\* A sign handler that empties the buffer when signing fails.
sign_text_clearonfail(k, fault) ==
    LET ac == active_client_get(active_client)
        r == CallOnce(Op("sign", DEFAULT_SIGNING_KEY_ID, "none", text_input, <<>>),
                      objects, pkform, poisoned, k, fault)
    IN  /\ Shows("SignVerify")
        /\ IF text_input = <<>>
           THEN /\ output_text' = <<"Error: Input text is empty">>
                /\ UNCHANGED <<signature, objects>>
           ELSE IF ~ac.ok
           THEN /\ output_text' = <<"Failed to use YubiHSM2 session", ac.kind>>
                /\ UNCHANGED <<signature, objects>>
           ELSE /\ objects' = r.objects
                /\ IF r.ret.ok
                   THEN /\ signature' = SomeSignature(r.ret.val)
                        /\ output_text' = <<"Successfully signed text", HexEncode(r.ret.val)>>
                   ELSE /\ output_text' = <<"Signing failed", r.ret.kind>>
                        /\ signature' = NoSignature
        /\ UNCHANGED <<session, mutex, pkform, callers, auth_password_input, auth_status,
                       text_input, current_screen, keys_output, keys_table, keys_data,
                       selected_key_row, kept>>

\* HsmApp::sign_text, the listener of the Sign button.
sign_text(k, fault) ==
    LET ac == active_client_get(active_client)
        r == CallOnce(Op("sign", DEFAULT_SIGNING_KEY_ID, "none", text_input, <<>>),
                      objects, pkform, poisoned, k, fault)
    IN  /\ Shows("SignVerify")
        /\ IF text_input = <<>>
           THEN /\ output_text' = <<"Error: Input text is empty">>
                /\ UNCHANGED <<signature, objects>>
           ELSE IF ~ac.ok
           THEN /\ output_text' = <<"Failed to use YubiHSM2 session", ac.kind>>
                /\ UNCHANGED <<signature, objects>>
           ELSE /\ objects' = r.objects
                /\ IF r.ret.ok
                   THEN /\ signature' = SomeSignature(r.ret.val)
                        /\ output_text' = <<"Successfully signed text", HexEncode(r.ret.val)>>
                   ELSE /\ output_text' = <<"Signing failed", r.ret.kind>>
                        /\ UNCHANGED signature
        /\ UNCHANGED <<session, mutex, pkform, callers, auth_password_input, auth_status,
                       text_input, current_screen, keys_output, keys_table, keys_data,
                       selected_key_row, kept>>

\* HsmApp::verify_text, the listener of the Verify button.
verify_text(fault) ==
    LET ac == active_client_get(active_client)
        r == CallOnce(Op("verify", DEFAULT_SIGNING_KEY_ID, "none", text_input,
                         signature.bytes),
                      objects, pkform, poisoned, Nonce(0, 0, FALSE), fault)
    IN  /\ Shows("SignVerify")
        /\ IF text_input = <<>>
           THEN /\ output_text' = <<"Error: Input text is empty">>
                /\ UNCHANGED objects
           ELSE IF ~signature.some
           THEN /\ output_text' = <<"Error: No signature to verify. Sign text first.">>
                /\ UNCHANGED objects
           ELSE IF ~ac.ok
           THEN /\ output_text' = <<"Failed to use YubiHSM2 session", ac.kind>>
                /\ UNCHANGED objects
           ELSE /\ objects' = r.objects
                /\ output_text' =
                      IF ~r.ret.ok THEN <<"Verification failed", r.ret.kind>>
                      ELSE IF r.ret.val THEN <<"Signature verification SUCCESSFUL">>
                      ELSE <<"Signature verification FAILED">>
        /\ UNCHANGED <<session, mutex, pkform, callers, auth_password_input, auth_status,
                       text_input, signature, current_screen, keys_output, keys_table,
                       keys_data, selected_key_row, kept>>

\* The listener of the Clear button.
ClearClicked ==
    /\ Shows("SignVerify")
    /\ text_input' = <<>>
    /\ signature' = NoSignature
    /\ output_text' = <<"Cleared. Ready to sign new text.">>
    /\ UNCHANGED <<session, mutex, device, callers, auth_password_input, auth_status,
                   current_screen, keys_output, keys_table, keys_data, selected_key_row, kept>>

\* str::trim().is_empty() on the passwords of the model.
TrimIsEmpty(password) == password \in {"", " "}

\* What a run of authenticate_session leaves: the four things it can write,
\* whether session.connect returned Ok, and the configurations it passed to
\* session.connect, in order.
AuthView(status, screen, password, ac, connected, connects) ==
    [auth_status |-> status, current_screen |-> screen,
     auth_password_input |-> password, active_client |-> ac,
     connected |-> connected, connects |-> connects]

\* A handler without the guard on the password: it connects with whatever
\* the field holds.
authenticate_noguard(password, screen, ac, fault) ==
    LET config == [auth_key_id |-> DEFAULT_AUTH_KEY_ID, auth_password |-> password]
        r == SessionManager_connect(ac, config, fault)
    IN  IF r.ret.ok
        THEN AuthView("Successfully authenticated to YubiHSM session.", "SignVerify",
                      "", r.active_client, TRUE, <<config>>)
        ELSE AuthView("Authentication failed", screen, password, r.active_client,
                      FALSE, <<config>>)

\* The body of HsmApp::authenticate_session on the password field's content,
\* the current screen and the session manager holding ac. The early return
\* on a blank password comes before the configuration is built; the password
\* passed on is the field's content, not the trimmed one.
authenticate(password, screen, ac, fault) ==
    LET config == [auth_key_id |-> DEFAULT_AUTH_KEY_ID, auth_password |-> password]
        r == SessionManager_connect(ac, config, fault)
    IN  IF TrimIsEmpty(password)
        THEN AuthView("Password cannot be empty.", screen, password, ac, FALSE, <<>>)
        ELSE IF r.ret.ok
        THEN AuthView("Successfully authenticated to YubiHSM session.", "SignVerify",
                      "", r.active_client, TRUE, <<config>>)
        ELSE AuthView("Authentication failed", screen, password, r.active_client,
                      FALSE, <<config>>)

\* HsmApp::authenticate_session, the listener of the Authenticate button.
\* A successful connect replaces the client and with it the mutex it owns.
authenticate_session(fault) ==
    LET v == authenticate(auth_password_input, current_screen, active_client, fault)
    IN  /\ Shows("Auth")
        /\ auth_status' = v.auth_status
        /\ current_screen' = v.current_screen
        /\ auth_password_input' = v.auth_password_input
        /\ active_client' = v.active_client
        /\ kept' = IF v.connected THEN Dropped(kept) ELSE kept
        /\ lock' = IF v.connected THEN 0 ELSE lock
        /\ poisoned' = IF v.connected THEN FALSE ELSE poisoned
        /\ UNCHANGED <<device, callers, text_input, output_text, signature, keys_output,
                       keys_table, keys_data, selected_key_row>>

\* A disconnect that leaves the signature and the listing of the session.
disconnect_session_keep ==
    /\ is_authenticated
    /\ active_client' = SessionManager_disconnect(active_client)
    /\ lock' = 0
    /\ poisoned' = FALSE
    /\ kept' = Dropped(kept)
    /\ current_screen' = "Auth"
    /\ auth_status' = "Disconnected. Please authenticate to the YubiHSM session."
    /\ output_text' = <<"Ready. Type text and click Sign.">>
    /\ keys_output' = <<"Click List keys to query objects from the YubiHSM2.">>
    /\ auth_password_input' = ""
    /\ UNCHANGED <<device, callers, text_input, signature, keys_table, keys_data,
                   selected_key_row>>

\* HsmApp::disconnect_session, the listener of the Disconnect button.
disconnect_session ==
    /\ is_authenticated
    /\ active_client' = SessionManager_disconnect(active_client)
    /\ lock' = 0
    /\ poisoned' = FALSE
    /\ kept' = Dropped(kept)
    /\ current_screen' = "Auth"
    /\ auth_status' = "Disconnected. Please authenticate to the YubiHSM session."
    /\ output_text' = <<"Ready. Type text and click Sign.">>
    /\ keys_output' = <<"Click List keys to query objects from the YubiHSM2.">>
    /\ signature' = NoSignature
    /\ keys_table' = NoTable
    /\ keys_data' = <<>>
    /\ selected_key_row' = NoRow
    /\ auth_password_input' = ""
    /\ UNCHANGED <<device, callers, text_input>>

\* The listeners of the sidebar's two navigation entries.
NavigateTo(screen) ==
    /\ is_authenticated
    /\ current_screen' = screen
    /\ UNCHANGED <<session, mutex, device, callers, auth_password_input, auth_status,
                   text_input, output_text, signature, keys_output, keys_table,
                   keys_data, selected_key_row, kept>>

\* The user edits the text field of the sign/verify screen.
TextEdited(t) ==
    /\ Shows("SignVerify")
    /\ text_input' = t
    /\ UNCHANGED <<session, mutex, device, callers, auth_password_input, auth_status,
                   output_text, signature, current_screen, keys_output, keys_table,
                   keys_data, selected_key_row, kept>>

\* The user edits the password field of the authentication screen.
PasswordEdited(p) ==
    /\ Shows("Auth")
    /\ auth_password_input' = p
    /\ UNCHANGED <<session, mutex, device, callers, auth_status, text_input,
                   output_text, signature, current_screen, keys_output, keys_table,
                   keys_data, selected_key_row, kept>>

\* ------------------------------------------------------ HsmApp: keys screen

\* An operation of hsm::operations called by a handler and run to its return:
\* what it returns, the objects the device holds afterwards and the remote
\* calls it sent. The transport fails the call number failAt, if any.
RECURSIVE RunToReturn(_, _, _, _, _, _, _, _)
RunToReturn(o, st, objs, form, pois, k, failAt, sent) ==
    CHOOSE r \in
        { IF s.pc = "done" THEN [ret |-> s.ret, objects |-> objs, requests |-> sent]
          ELSE IF pois
          THEN [ret |-> LockError(Locker(o, s.loc.call)), objects |-> objs,
                requests |-> sent]
          ELSE CHOOSE q \in
                 { RunToReturn(o, Step(o, s.loc, resp), resp.objects, form, pois, k,
                               failAt, Append(sent, s.loc.call)) :
                     resp \in {DeviceExec(s.loc.call, objs, form, k,
                                          Len(sent) + 1 = failAt)} } : TRUE :
            s \in {st} } : TRUE

CallOp(o, objs, form, pois, k, failAt) ==
    RunToReturn(o, Enter(o), objs, form, pois, k, failAt, <<>>)

\* Option<Entity<TableState>>: the table built from the rows of a listing.
SomeTable(rows) == [some |-> TRUE, rows |-> rows]

SomeRow(ix) == [some |-> TRUE, ix |-> ix]

\* What a handler of the keys screen leaves: the fields of HsmApp it writes,
\* the device's objects and the remote calls it sent.
KeysView(output, table, data, row, objs, sent) ==
    [keys_output |-> output, keys_table |-> table, keys_data |-> data,
     selected_key_row |-> row, objects |-> objs, requests |-> sent]

\* A listing handler that keeps the selection, and keeps the table and the
\* cached listing when the listing fails.
load_keys_from_hsm_keep(sel, tbl, data, ac, objs, failAt) ==
    LET a == active_client_get(ac)
        r == CallOp(Op("list_object_summaries", 0, "none", <<>>, <<>>),
                    objs, pkform, poisoned, Nonce(0, 0, FALSE), failAt)
    IN  IF ~a.ok
        THEN KeysView(<<"Failed to use YubiHSM2 session", a.kind>>, tbl, data, sel, objs, <<>>)
        ELSE IF r.ret.ok
        THEN KeysView(<<"Found object(s)", Len(r.ret.val)>>, SomeTable(r.ret.val),
                      r.ret.val, sel, r.objects, r.requests)
        ELSE KeysView(<<"Failed to list objects from YubiHSM2", r.ret.kind>>,
                      tbl, data, sel, r.objects, r.requests)

\* HsmApp::load_keys_from_hsm on an application with the selection sel, the
\* table tbl, the cached listing data and a session manager holding ac.
load_keys_from_hsm(sel, tbl, data, ac, objs, failAt) ==
    LET a == active_client_get(ac)
        r == CallOp(Op("list_object_summaries", 0, "none", <<>>, <<>>),
                    objs, pkform, poisoned, Nonce(0, 0, FALSE), failAt)
    IN  IF ~a.ok
        THEN KeysView(<<"Failed to use YubiHSM2 session", a.kind>>, NoTable, <<>>, NoRow,
                      objs, <<>>)
        ELSE IF r.ret.ok
        THEN KeysView(<<"Found object(s)", Len(r.ret.val)>>, SomeTable(r.ret.val),
                      r.ret.val, NoRow, r.objects, r.requests)
        ELSE KeysView(<<"Failed to list objects from YubiHSM2", r.ret.kind>>,
                      NoTable, <<>>, NoRow, r.objects, r.requests)

\* A lookup that takes the first row whatever the index.
Get_first(data, ix) == IF ix < Len(data) THEN 1 ELSE 0

\* Vec::get with a 0-based index: the position of the row, 0 for None.
Get(data, ix) == IF ix < Len(data) THEN ix + 1 ELSE 0

\* HsmApp::delete_selected_key on an application with the selection sel, the
\* table tbl, the cached listing data and a session manager holding ac; the
\* transport fails the delete when fault, and the call number failAt of the
\* listing that follows a successful delete.
delete_selected_key(sel, tbl, data, ac, objs, fault, failAt) ==
    LET Says(msg) == KeysView(msg, tbl, data, sel, objs, <<>>)
        n == Get(data, sel.ix)
        a == active_client_get(ac)
    IN  IF ~sel.some THEN Says(<<"No key selected for deletion.">>)
        ELSE IF n = 0 THEN Says(<<"Selected key no longer exists.">>)
        ELSE IF data[n].object_type = AuthenticationKey
        THEN Says(<<"Cannot delete authentication keys for safety reasons.">>)
        ELSE IF ~a.ok THEN Says(<<"Failed to access HSM session", a.kind>>)
        ELSE LET d == CallOp(Op("delete_object", data[n].object_id, data[n].object_type,
                                <<>>, <<>>),
                             objs, pkform, poisoned, Nonce(0, 0, FALSE),
                             IF fault THEN 1 ELSE 0)
                 l == load_keys_from_hsm(sel, tbl, data, ac, d.objects, failAt)
             IN  IF ~d.ret.ok
                 THEN KeysView(<<"Failed to delete object", d.ret.kind>>, tbl, data, sel,
                               d.objects, d.requests)
                 ELSE [l EXCEPT !.requests = d.requests \o l.requests]

\* The handler's writes become the application's state.
KeysApply(v) ==
    /\ keys_output' = v.keys_output
    /\ keys_table' = v.keys_table
    /\ keys_data' = v.keys_data
    /\ selected_key_row' = v.selected_key_row
    /\ objects' = v.objects
    /\ UNCHANGED <<session, mutex, pkform, callers, handles, auth_password_input,
                   auth_status, text_input, output_text, signature, current_screen>>

\* The listener of the List keys button.
ListClicked(failAt) ==
    /\ Shows("KeysConfig")
    /\ \E v \in {load_keys_from_hsm(selected_key_row, keys_table, keys_data,
                                     active_client, objects, failAt)} : KeysApply(v)

\* render_keys_config_screen: the Delete selected button has its listener
\* only when the selected row is in the cached listing and is no
\* authentication key.
can_delete ==
    /\ selected_key_row.some
    /\ Get(keys_data, selected_key_row.ix) # 0
    /\ keys_data[Get(keys_data, selected_key_row.ix)].object_type # AuthenticationKey

\* The listener of the Delete selected button.
DeleteClicked(fault, failAt) ==
    /\ Shows("KeysConfig")
    /\ can_delete
    /\ \E v \in {delete_selected_key(selected_key_row, keys_table, keys_data,
                                      active_client, objects, fault, failAt)} : KeysApply(v)

\* The subscription to the table's events: TableEvent::SelectRow.
SelectRow(ix) ==
    /\ Shows("KeysConfig")
    /\ keys_table.some
    /\ ix < Len(keys_table.rows)
    /\ selected_key_row' = SomeRow(ix)
    /\ UNCHANGED <<session, mutex, device, callers, handles, auth_password_input,
                   auth_status, text_input, output_text, signature, current_screen,
                   keys_output, keys_table, keys_data>>

\* ----------------------------------------------- specification: application

Passwords == {"", " ", "password", "wrong"}

Texts == {<<>>, Hello, Hell0}

\* The nonces the device draws under SpecApp: signatures of 70 and 64 bytes.
AppNonces == {Nonce(0, 0, FALSE), Nonce(3, 3, FALSE)}

\* The remote call of a listing that the transport fails: none (0), or one
\* of the calls a listing of the device's objects makes.
FailPoints == 0..(2 * Len(objects))

\* The 0-based indexes of the rows of a listing of the device.
RowIndexes == {i - 1 : i \in 1..Len(ProvisionedObjects)}

NextApp ==
    \/ \E p \in Passwords : PasswordEdited(p)
    \/ \E fault \in BOOLEAN : authenticate_session(fault)
    \/ \E t \in Texts : TextEdited(t)
    \/ \E k \in AppNonces, fault \in BOOLEAN : sign_text(k, fault)
    \/ \E fault \in BOOLEAN : verify_text(fault)
    \/ ClearClicked
    \/ \E screen \in {"SignVerify", "KeysConfig"} : NavigateTo(screen)
    \/ \E failAt \in FailPoints : ListClicked(failAt)
    \/ \E ix \in RowIndexes : SelectRow(ix)
    \/ \E fault \in BOOLEAN, failAt \in FailPoints : DeleteClicked(fault, failAt)
    \/ disconnect_session

SpecApp == Init /\ [][NextApp]_vars

\* ------------------------------------------------------ claims: application

\* The signatures the device can return for the text t under the signing key.
DeviceSignatures(t) ==
    { DerEncode(RScalar(k), SScalar(PrivOf(DEFAULT_SIGNING_KEY_ID), Sha256(t), k)) :
        k \in AllNonces }

\* C19: the application's one last-signature buffer changes only in two
\* ways: a successful sign of the non-empty text overwrites it with the
\* signature the device returned for that text, and a clear or a disconnect
\* empties it. Every other step (a failed sign, a sign on empty text, a
\* verify, an edit, a connect attempt, a navigation) leaves it as it was.
C19_OneSignatureBuffer ==
    [][/\ signature' # signature =>
            \/ /\ output_text' = <<"Successfully signed text", HexEncode(signature'.bytes)>>
               /\ signature'.some
               /\ text_input # <<>>
               /\ signature'.bytes \in DeviceSignatures(text_input)
               /\ is_authenticated
            \/ /\ signature' = NoSignature
               /\ \/ output_text' = <<"Cleared. Ready to sign new text.">>
                  \/ is_authenticated /\ ~is_authenticated'
       /\ (output_text' # output_text /\ output_text'[1] = "Successfully signed text") =>
            (signature'.some /\ output_text'[2] = HexEncode(signature'.bytes))
       /\ (output_text' # output_text /\ output_text'[1] = "Cleared. Ready to sign new text.") =>
            signature' = NoSignature
       /\ (is_authenticated /\ ~is_authenticated') => signature' = NoSignature]_vars

\* C19 witness: the buffer holds a signature of the text, and a sign has
\* just failed without changing it.
C19_Witness ==
    /\ signature.some
    /\ signature.bytes \in DeviceSignatures(text_input)
    /\ output_text[1] = "Signing failed"

\* ------------------------------------------------- claims: session lifetime

\* C20: is_authenticated is true exactly when a capability is held, and it
\* changes only by explicit calls: from false to true only in a step that is
\* a successful connect, from true to false only in a step that is a
\* disconnect; a step of sign, verify, list or delete, or of any other
\* operation, leaves it and the capability as they are.
C20_SessionOnlyByConnectDisconnect ==
    [][/\ is_authenticated <=> active_client_get(active_client).ok
       /\ (~is_authenticated /\ is_authenticated') =>
            /\ UNCHANGED <<device, callers>>
            /\ \E config \in Configs, fault \in BOOLEAN :
                  LET r == SessionManager_connect(active_client, config, fault)
                  IN  r.ret.ok /\ active_client' = r.active_client
       /\ (is_authenticated /\ ~is_authenticated') =>
            /\ UNCHANGED <<device, callers>>
            /\ active_client' = None
       /\ (\E c \in Callers : pc'[c] # pc[c]) => active_client' = active_client]_vars

\* C20 witness: a delete_object has succeeded on the device and the session
\* is still the active one.
C20_Witness ==
    /\ is_authenticated
    /\ \E c \in Callers :
          /\ op[c].name = "delete_object"
          /\ pc[c] = "done"
          /\ ret[c].ok

\* C21: disconnect has no error path and is idempotent. It can be called in
\* every state in which no caller borrows the client, with or without an
\* active session; every step of it leaves no active session; and in a state
\* without an active session a disconnect changes nothing, so a second
\* disconnect leaves the state of the first.
C21_DisconnectIdempotent ==
    /\ [](/\ NoBorrow => ENABLED Disconnect
          /\ SessionManager_disconnect(active_client) = None
          /\ SessionManager_disconnect(SessionManager_disconnect(active_client))
                = SessionManager_disconnect(active_client)
          /\ ~is_authenticated => ~ENABLED <<Disconnect>>_vars)
    /\ [][Disconnect => ~is_authenticated']_vars

\* C21 witness: no session is active on a device whose signing key an
\* operation has deleted (a session was opened, used and disconnected), and
\* disconnect can be called again.
C21_Witness ==
    /\ ~is_authenticated
    /\ NoBorrow
    /\ Find(objects, DEFAULT_SIGNING_KEY_ID, AsymmetricKey) = 0

\* ------------------------------------------------------------ claims: sign

\* Caller c is in sign with its remote call pending or in flight.
SignCalling(c) == op[c].name = "sign" /\ pc[c] \in {"lock", "remote"}

\* The answers the device can give to the call in flight of caller c.
DeviceAnswers(c) ==
    { DeviceExec(loc[c].call, objects, pkform, k, fault) :
        k \in AllNonces, fault \in BOOLEAN }

\* C22: a sign of a non-empty message asks the device for one prehash
\* signature, under the key id it was given, of the SHA-256 digest of the
\* message and not of the message; in the step in which the device answers,
\* sign returns Ok with exactly the bytes of the answer, or SigningFailed
\* with the device's error.
C22_SignSendsDigestReturnsAnswer ==
    /\ [](\A c \in Callers :
            SignCalling(c) =>
                /\ op[c].data # <<>>
                /\ loc[c].call.fn = "sign_ecdsa_prehash_raw"
                /\ loc[c].call.id = op[c].id
                /\ loc[c].call.arg = Sha256(op[c].data)
                /\ loc[c].call.arg # op[c].data)
    /\ [][\A c \in Callers :
            (op[c].name = "sign" /\ pc[c] = "remote" /\ pc'[c] # "remote") =>
                /\ pc'[c] = "done"
                /\ calls'[c] = <<"sign_ecdsa_prehash_raw">>
                /\ \E resp \in DeviceAnswers(c) :
                      /\ objects' = resp.objects
                      /\ resp.ok => ret'[c] = Ok(resp.val)
                      /\ ~resp.ok =>
                            /\ ~ret'[c].ok
                            /\ ret'[c].kind = "SigningFailed"
                            /\ ret'[c].detail = <<resp.err>>]_vars

\* C22 witness: a sign of hello has returned the device's DER signature of
\* 63 bytes, as the device encoded it.
C22_Witness ==
    \E c \in Callers :
        /\ op[c].name = "sign"
        /\ op[c].data = Hello
        /\ pc[c] = "done"
        /\ ret[c].ok
        /\ Len(ret[c].val) = 63
        /\ ret[c].val \in DeviceSignatures(Hello)

\* --------------------------------------------------- claims: delete_object

\* Caller c is in delete_object with a type other than AuthenticationKey.
DeleteForwarded(c) == op[c].name = "delete_object" /\ op[c].ty # AuthenticationKey

\* delete_object forwards one delete request with the id and type it was
\* given, and returns Ok when the device succeeds and DeletionFailed when it
\* fails.
DeleteForwardsOnce ==
    /\ [](\A c \in Callers :
            DeleteForwarded(c) =>
                /\ pc[c] \in {"lock", "remote"} =>
                      loc[c].call = RemoteCall("delete_object", op[c].id, op[c].ty, <<>>)
                /\ pc[c] = "done" =>
                      /\ calls[c] = <<"delete_object">>
                      /\ ret[c].ok \/ ret[c].kind = "DeletionFailed")
    /\ [][\A c \in Callers :
            (DeleteForwarded(c) /\ pc[c] = "remote" /\ pc'[c] # "remote") =>
                \E fault \in BOOLEAN :
                    LET resp == DeviceExec(loc[c].call, objects, pkform,
                                           Nonce(0, 0, FALSE), fault)
                    IN  /\ objects' = resp.objects
                        /\ pc'[c] = "done"
                        /\ ret'[c].ok <=> resp.ok
                        /\ ret'[c].ok => ret'[c] = Ok(<<>>)]_vars

\* C23: delete_object with an object type other than AuthenticationKey
\* forwards exactly one delete request with the given id and type; it returns
\* Ok when the device succeeds and DeletionFailed when the device fails; and
\* every error it returns is of a kind that enum HsmError declares.
C23_DeleteForwardsOrDeletionFailed ==
    /\ DeleteForwardsOnce
    /\ [](\A c \in Callers :
            (DeleteForwarded(c) /\ pc[c] = "done" /\ ~ret[c].ok) =>
                ret[c].kind \in HsmError)

\* ------------------------------------------ specification: handles kept

\* HsmClient::client: a caller takes a clone of the Arc<Mutex<Client>> of
\* the active capability and keeps it.
RawClone(c) ==
    /\ pc[c] = "idle"
    /\ is_authenticated
    /\ kept[c] # "live"
    /\ kept' = [kept EXCEPT ![c] = "live"]
    /\ UNCHANGED <<session, mutex, device, callers, app>>

\* A caller locks the handle it keeps and calls the yubihsm client's
\* delete_object on it. The handle of the active capability shares its
\* Mutex; a stale handle keeps the capability it was cloned from, and that
\* capability's session with the device, alive.
RawDeleteKept(c, id, ty) ==
    LET resp == DeviceExec(RemoteCall("delete_object", id, ty, <<>>),
                           objects, pkform, Nonce(0, 0, FALSE), FALSE)
    IN  /\ pc[c] = "idle"
        /\ kept[c] # "none"
        /\ kept[c] = "live" => (MutexAvailable /\ ~poisoned)
        /\ objects' = resp.objects
        /\ UNCHANGED <<session, mutex, pkform, callers, handles, app>>

\* A caller drops the handle it keeps.
RawDropKept(c) ==
    /\ kept[c] # "none"
    /\ kept' = [kept EXCEPT ![c] = "none"]
    /\ UNCHANGED <<session, mutex, device, callers, app>>

\* One caller runs the operations; the others take, use and drop handles.
NextHandle ==
    \/ \E config \in Configs, fault \in BOOLEAN : Connect(config, fault)
    \/ Disconnect
    \/ \E o \in PoisonOps : Invoke(CryptoCaller, o)
    \/ Acquire(CryptoCaller)
    \/ \E fault \in BOOLEAN : Remote(CryptoCaller, Nonce(0, 0, FALSE), fault)
    \/ Return(CryptoCaller, FALSE)
    \/ \E c \in Callers \ {CryptoCaller} : RawClone(c)
    \/ \E c \in Callers \ {CryptoCaller}, i \in ObjectIds, t \in ObjectTypes :
          RawDeleteKept(c, i, t)
    \/ \E c \in Callers \ {CryptoCaller} : RawDropKept(c)

SpecHandle == Init /\ [][NextHandle]_vars

\* --------------------------------------------------------- claims: handles

\* No operation holds the capability: every caller is outside hsm::operations
\* or has its result, with no remote call pending and without the lock.
NoOperationHoldsCapability ==
    \A c \in Callers :
        /\ pc[c] \in {"idle", "done"}
        /\ loc[c] = NoLocals
        /\ lock # c

\* The operations keep nothing past their return, and while no session is
\* active no operation holds the capability.
OperationsHoldNoHandle ==
    /\ \A c \in Callers : pc[c] \in {"idle", "done"} => (loc[c] = NoLocals /\ lock # c)
    /\ ~is_authenticated => NoOperationHoldsCapability

\* A caller issues a remote call on a capability that is no longer the
\* session manager's, through a handle it kept.
StaleCall ==
    \E c \in Callers, i \in ObjectIds, t \in ObjectTypes :
        kept[c] = "stale" /\ RawDeleteKept(c, i, t)

\* C24 as stated: the capability is owned only by the session manager and
\* never retained past a call, so that after a disconnect no remote call is
\* issued on the disconnected capability.
C24_NoCallAfterDisconnect ==
    /\ [](OperationsHoldNoHandle)
    /\ [](\A c \in Callers : kept[c] # "stale")
    /\ [][~StaleCall]_vars

\* C24 amended: sign, verify, list_object_summaries, get_object_info,
\* get_public_key and delete_object hold no handle to the capability when
\* they return, and while no session is active none of them has a remote
\* call pending or in flight; a caller holds a handle past a call only by a
\* step in which it takes one from HsmClient::client itself, and the device's
\* objects change without an active session only in a step of such a caller.
C24_OperationsHoldNoHandle ==
    /\ [](OperationsHoldNoHandle)
    /\ [][\A c \in Callers :
            (kept[c] = "none" /\ kept'[c] # "none") => (RawClone(c) /\ pc'[c] = pc[c])]_vars
    /\ [][(~is_authenticated /\ objects' # objects) => StaleCall]_vars

\* C24 witness: no session is active, the operations' caller has taken the
\* result of its call, the signing key is deleted, and another caller still
\* keeps a handle of the disconnected capability.
C24_Witness ==
    /\ ~is_authenticated
    /\ NoOperationHoldsCapability
    /\ Find(objects, DEFAULT_SIGNING_KEY_ID, AsymmetricKey) = 0
    /\ \E c \in Callers : kept[c] = "stale"

\* ---------------------------------------------------------- claims: retries

\* How far list_object_summaries has come: two remote calls per entry, the
\* second only for an asymmetric key.
ListProgress(l) ==
    2 * Len(l.summaries) + (IF l.call.fn = "get_public_key" THEN 1 ELSE 0)

\* The remote calls an operation that has returned may have issued.
CallsOf(o) ==
    CASE o.name = "sign" -> {<<"sign_ecdsa_prehash_raw">>}
      [] o.name = "verify" -> {<<"get_public_key">>}
      [] o.name = "delete_object" -> {<<>>, <<"delete_object">>}
      [] o.name = "get_object_info" -> {<<"get_object_info">>}
      [] o.name = "get_public_key" -> {<<"get_public_key">>}
      [] OTHER -> {}

\* C25: nothing is retried. A sign of a non-empty message that has returned
\* has issued exactly one sign-prehash call, a verify exactly one
\* get-public-key call, a delete at most one delete call, and a lookup one
\* call. In the step in which the device answers a remote call, a failure
\* ends the operation with an error that carries the device's error and no
\* further call is issued; after a success the operation returns or, in a
\* listing, goes on to a call it has not issued before.
C25_NothingRetried ==
    /\ [](\A c \in Callers :
            (pc[c] = "done" /\ op[c].name \in {"sign", "verify", "delete_object",
                                               "get_object_info", "get_public_key"}
               /\ ~IsEmptyMessage(op[c]))
            => calls[c] \in CallsOf(op[c]))
    /\ [][\A c \in Callers :
            (pc[c] = "remote" /\ pc'[c] # "remote") =>
                \E fault \in BOOLEAN :
                    LET resp == DeviceExec(loc[c].call, objects, pkform,
                                           Nonce(0, 0, FALSE), fault)
                    IN  /\ objects' = resp.objects
                        /\ calls'[c] = calls[c]
                        /\ ~resp.ok =>
                              /\ pc'[c] = "done"
                              /\ ~ret'[c].ok
                              /\ ret'[c].detail[Len(ret'[c].detail)] = resp.err
                        /\ (resp.ok /\ pc'[c] # "done") =>
                              /\ op[c].name = "list_object_summaries"
                              /\ pc'[c] = "lock"
                              /\ loc'[c].call # loc[c].call
                              /\ loc[c].call.fn # "list_objects" =>
                                    ListProgress(loc'[c]) > ListProgress(loc[c])]_vars

\* C25 witness: a listing has stopped at its third remote call, the public
\* key of the signing key, which the device failed.
C25_Witness ==
    \E c \in Callers :
        /\ ListFailed(c)
        /\ calls[c] = <<"list_objects", "get_object_info", "get_public_key">>
        /\ ret[c].kind = "GetPublicKeyFailed"

\* ----------------------------------------------- claims: verify, key first

\* Caller c is in verify with a non-empty message.
Verifying(c) == op[c].name = "verify" /\ op[c].data # <<>>

\* C26: verify fetches the public key before it looks at the signature. A
\* verify of a non-empty message asks the device for the public key of its
\* key id whatever the signature bytes are, and has issued exactly that one
\* call when it returns. In the step in which the device answers, a failed
\* retrieval and a malformed key give InvalidKey whatever the signature;
\* InvalidInput is returned only when the key was retrieved and parsed, and
\* then exactly when the signature bytes have no acceptable shape.
C26_KeyBeforeSignature ==
    /\ [](\A c \in Callers :
            Verifying(c) =>
                /\ pc[c] \in {"lock", "remote"} =>
                      loc[c].call = RemoteCall("get_public_key", op[c].id, "none", <<>>)
                /\ pc[c] = "done" => calls[c] = <<"get_public_key">>)
    /\ [][\A c \in Callers :
            (Verifying(c) /\ pc[c] = "remote" /\ pc'[c] # "remote") =>
                \E fault \in BOOLEAN :
                    LET resp == DeviceExec(loc[c].call, objects, pkform,
                                           Nonce(0, 0, FALSE), fault)
                        keyOk == resp.ok /\ VerifyingKeyOf(resp.val).ok
                    IN  /\ pc'[c] = "done"
                        /\ ~resp.ok =>
                              /\ ret'[c].kind = "InvalidKey"
                              /\ ret'[c].detail = <<"Failed to get public key", resp.err>>
                        /\ resp.ok => ret'[c].detail # <<"Failed to get public key", "ProtocolError">>
                        /\ ~keyOk => ret'[c].kind = "InvalidKey"
                        /\ ret'[c].kind = "InvalidInput" <=>
                              (keyOk /\ ~ParseSignature(op[c].sig).ok)]_vars

\* C26 witness: a verify with signature bytes of no acceptable shape, on a
\* device that exports a malformed key, has issued its get-public-key call
\* and returned InvalidKey.
C26_Witness ==
    \E c \in Callers :
        /\ Verifying(c)
        /\ pc[c] = "done"
        /\ ~ParseSignature(op[c].sig).ok
        /\ pkform \notin PkForms
        /\ calls[c] = <<"get_public_key">>
        /\ ret[c].kind = "InvalidKey"
        /\ ret[c].detail[1] # "Failed to get public key"

\* ------------------------------------- specification: listing, fair callers

\* The device answers every call in flight.
DeviceAnswersCall(c) == \E fault \in BOOLEAN : Remote(c, Nonce(0, 0, FALSE), fault)

\* The callers of SpecList with a device that answers every call and a lock
\* that every waiting caller eventually gets.
SpecFair ==
    /\ InitList
    /\ [][NextList]_vars
    /\ \A c \in Callers : SF_vars(Acquire(c)) /\ WF_vars(DeviceAnswersCall(c))

\* ------------------------------------------------- claims: listing returns

\* Caller c's list_object_summaries has not returned yet.
ListRunning(c) == op[c].name = "list_object_summaries" /\ pc[c] \in {"lock", "remote"}

\* C27: list_object_summaries never waits for the lock while it holds it:
\* whenever it is about to lock the client, for its enumeration and for each
\* per-object lookup, it does not hold the lock; and with a device that
\* answers every call and fair lock acquisition, every list_object_summaries
\* under way eventually returns.
C27_ListEventuallyReturns ==
    /\ [](\A c \in Callers : (ListRunning(c) /\ pc[c] = "lock") => lock # c)
    /\ \A c \in Callers : ListRunning(c) ~> (pc[c] = "done")

\* C27 witness: a listing waits for the lock for its fourth remote call
\* while the other caller's remote call is in flight.
C27_Witness ==
    \E c, d \in Callers :
        /\ ListRunning(c)
        /\ pc[c] = "lock"
        /\ Len(calls[c]) = 3
        /\ pc[d] = "remote"
        /\ lock = d

\* ------------------------------------------------------ claims: keys screen

\* The selections the delete handler can find: none, each row of the cached
\* listing, and an index past its end.
Selections == {NoRow} \cup {SomeRow(ix) : ix \in 0..Len(keys_data)}

\* The delete handler finds a row to delete and a session to delete it with.
Eligible(sel, ac) ==
    /\ sel.some
    /\ sel.ix < Len(keys_data)
    /\ keys_data[sel.ix + 1].object_type # AuthenticationKey
    /\ ac # None

\* The status messages of the delete handler's refusals.
Refusals ==
    { <<"No key selected for deletion.">>,
      <<"Selected key no longer exists.">>,
      <<"Cannot delete authentication keys for safety reasons.">>,
      <<"Failed to access HSM session", "AuthenticationFailed">> }

\* The positions of the delete requests among the remote calls sent.
DeletesIn(sent) == {i \in 1..Len(sent) : sent[i].fn = "delete_object"}

\* C28: in every state of the application, the delete handler of the keys
\* screen sends a remote delete exactly when a row is selected, its index is
\* within the cached listing, the cached row is no authentication key and a
\* session is active; the request is the first call it sends, the only
\* delete, and carries the id and type of the cached row at the selected
\* index. In every other case it sends no remote call, leaves the device,
\* the cached listing and the selection as they are, and sets one of its
\* refusal messages.
C28_DeleteOnlySelectedRow ==
    \A sel \in Selections, ac \in {None, active_client},
       fault \in BOOLEAN, failAt \in FailPoints :
        LET v == delete_selected_key(sel, keys_table, keys_data, ac, objects,
                                     fault, failAt)
        IN  IF Eligible(sel, ac)
            THEN /\ DeletesIn(v.requests) = {1}
                 /\ v.requests[1] =
                       RemoteCall("delete_object", keys_data[sel.ix + 1].object_id,
                                  keys_data[sel.ix + 1].object_type, <<>>)
            ELSE /\ v.requests = <<>>
                 /\ v.objects = objects
                 /\ v.keys_data = keys_data
                 /\ v.selected_key_row = sel
                 /\ v.keys_output \in Refusals

\* C28 witness: the delete handler has deleted the signing key, the listing
\* was read again, and the row of the authentication key is selected.
C28_Witness ==
    /\ is_authenticated
    /\ Find(objects, DEFAULT_SIGNING_KEY_ID, AsymmetricKey) = 0
    /\ Len(keys_data) = 1
    /\ keys_data[1].object_type = AuthenticationKey
    /\ selected_key_row = SomeRow(0)

\* Every row of the cached listing is an object the device holds, and the
\* table shows the cached listing.
NoStaleRow ==
    /\ \A i \in 1..Len(keys_data) :
          Find(objects, keys_data[i].object_id, keys_data[i].object_type) # 0
    /\ \/ keys_table = NoTable /\ keys_data = <<>>
       \/ keys_table = SomeTable(keys_data)

\* The listing handler, called in this state with or without a session and
\* with any of its remote calls failing, leaves a fresh listing of the
\* device when it succeeds and an empty one when it fails; it always clears
\* the selection.
ListingFreshOrEmpty ==
    \A ac \in {None, active_client}, failAt \in FailPoints :
        LET v == load_keys_from_hsm(selected_key_row, keys_table, keys_data, ac,
                                    objects, failAt)
            failed == ac = None \/ (failAt >= 1 /\ failAt <= Len(v.requests))
        IN  /\ v.selected_key_row = NoRow
            /\ v.objects = objects
            /\ failed => (v.keys_data = <<>> /\ v.keys_table = NoTable
                             /\ v.keys_output[1] # "Found object(s)")
            /\ ~failed => /\ RowPerEntry(v.keys_data, Enumeration(objects))
                           /\ v.keys_table = SomeTable(v.keys_data)
                           /\ v.keys_output = <<"Found object(s)", Len(objects)>>

\* A delete event handled right after a delete event that deleted an object,
\* without a new selection, sends no remote call.
SecondDeleteSendsNothing ==
    \A fault \in BOOLEAN, failAt \in FailPoints :
        LET v == delete_selected_key(selected_key_row, keys_table, keys_data,
                                     active_client, objects, fault, failAt)
            w == delete_selected_key(v.selected_key_row, v.keys_table, v.keys_data,
                                     active_client, v.objects, FALSE, 0)
        IN  v.objects # objects =>
                /\ v.selected_key_row = NoRow
                /\ w.requests = <<>>
                /\ w.objects = v.objects

\* C29: the deletion path holds no stale row past a mutation. In every state
\* the cached rows are objects the device holds; a step that deletes an
\* object from the keys screen also clears the selection and leaves the
\* listing read again from the device, or empty when that listing failed; a
\* second delete event without a new selection sends no remote call; and a
\* listing attempt that fails empties the cached listing.
C29_NoStaleRow ==
    /\ [](NoStaleRow /\ ListingFreshOrEmpty /\ SecondDeleteSendsNothing)
    /\ [][objects' # objects =>
            /\ selected_key_row' = NoRow
            /\ ~can_delete'
            /\ \/ keys_data' = <<>> /\ keys_table' = NoTable
               \/ /\ RowPerEntry(keys_data', Enumeration(objects'))
                  /\ keys_table' = SomeTable(keys_data')]_vars

\* C29 witness: the signing key was deleted from the keys screen and the
\* listing that followed failed: the cached listing is empty and no row is
\* selected.
C29_Witness ==
    /\ is_authenticated
    /\ Find(objects, DEFAULT_SIGNING_KEY_ID, AsymmetricKey) = 0
    /\ keys_data = <<>>
    /\ keys_table = NoTable
    /\ selected_key_row = NoRow
    /\ keys_output[1] = "Failed to list objects from YubiHSM2"

\* --------------------------------------------- claims: session-local state

\* The application holds nothing of a session: no signature, no listing, no
\* table, no selection.
HoldsNothing ==
    /\ signature = NoSignature
    /\ keys_data = <<>>
    /\ keys_table = NoTable
    /\ selected_key_row = NoRow

\* C30: in every reachable state of the application, when no session is
\* active the last-signature buffer is empty, the cached key listing is
\* empty, no row is selected and the current screen is the authentication
\* screen; and whenever the session manager's capability changes, the state
\* after the step holds no signature and no listing, so that none outlives
\* the session in which it was obtained.
C30_NothingOutlivesSession ==
    /\ [](~is_authenticated => (HoldsNothing /\ current_screen = "Auth"))
    /\ [][active_client' # active_client => HoldsNothing']_vars

\* C30 witness: the session in which the signing key was deleted from the
\* keys screen has been disconnected.
C30_Witness ==
    /\ ~is_authenticated
    /\ auth_status = "Disconnected. Please authenticate to the YubiHSM session."
    /\ Find(objects, DEFAULT_SIGNING_KEY_ID, AsymmetricKey) = 0
    /\ HoldsNothing

\* ------------------------------------------- claims: authentication handler

\* Whatever the password field holds and whether or not the device can be
\* opened, a run of the handler from the current state: on a blank password
\* it passes nothing to session.connect and writes the status only; otherwise
\* it passes the field's content once; when the connect succeeds the screen
\* is the sign/verify one, the field is empty and a session is held; when no
\* connect succeeds the screen, the session and the field are as before.
AuthCases ==
    \A password \in Passwords, fault \in BOOLEAN :
        LET v == authenticate(password, current_screen, active_client, fault)
        IN  /\ TrimIsEmpty(password) =>
                /\ v.connects = <<>>
                /\ ~v.connected
                /\ v.auth_status = "Password cannot be empty."
            /\ ~TrimIsEmpty(password) =>
                /\ v.connects = <<[auth_key_id |-> DEFAULT_AUTH_KEY_ID,
                                   auth_password |-> password]>>
                /\ v.connected <=> ClientOpen(v.connects[1], objects, fault)
            /\ v.connected =>
                /\ v.current_screen = "SignVerify"
                /\ v.auth_password_input = ""
                /\ v.active_client # None
                /\ v.auth_status = "Successfully authenticated to YubiHSM session."
            /\ ~v.connected =>
                /\ v.current_screen = current_screen
                /\ v.active_client = active_client
                /\ v.auth_password_input = password
                /\ v.auth_status \in {"Password cannot be empty.", "Authentication failed"}

\* The steps the handler takes from the authentication screen: a step that
\* opens a session left a non-blank password, shows the sign/verify screen
\* and empties the field; a step that changes the status and opens no session
\* changes nothing but the status, and with a blank password the status is
\* not the one of a failed connect.
AuthSteps ==
    /\ (~is_authenticated /\ is_authenticated') =>
          /\ ~TrimIsEmpty(auth_password_input)
          /\ current_screen' = "SignVerify"
          /\ auth_password_input' = ""
          /\ auth_status' = "Successfully authenticated to YubiHSM session."
          /\ UNCHANGED <<device, callers, text_input, output_text, signature,
                         keys_output, keys_table, keys_data, selected_key_row>>
    /\ (~is_authenticated /\ ~is_authenticated' /\ auth_status' # auth_status) =>
          /\ UNCHANGED <<session, mutex, device, callers, handles, auth_password_input,
                         text_input, output_text, signature, current_screen,
                         keys_output, keys_table, keys_data, selected_key_row>>
          /\ auth_status' = IF TrimIsEmpty(auth_password_input)
                            THEN "Password cannot be empty."
                            ELSE "Authentication failed"

\* C31: the authentication handler makes no connect attempt when the
\* password is empty or only whitespace; on a successful connect it switches
\* the current screen to the sign/verify screen and clears the password
\* field; on a failed connect the current screen, the session and the
\* password field are left unchanged and only the status message changes.
C31_AuthenticateHandler == [][AuthCases /\ AuthSteps]_vars

\* C31 witness: a connect with a wrong password has failed, the field still
\* holds that password and the authentication screen is still shown with no
\* session; the session before it, in which the signing key was deleted, had
\* been opened by the handler and disconnected.
C31_Witness ==
    /\ ~is_authenticated
    /\ auth_status = "Authentication failed"
    /\ auth_password_input = "wrong"
    /\ current_screen = "Auth"
    /\ Find(objects, DEFAULT_SIGNING_KEY_ID, AsymmetricKey) = 0

====
